---- MODULE Spec2Model ----
(***************************************************************************)
(* InsightBoard backend: the transcript -> task-graph pipeline.            *)
(*                                                                         *)
(*  - ValidationService.validateTasks / validateTaskSchema (sanitizer)     *)
(*  - POST /submit, DatabaseService and JobProcessorService (job machine)  *)
(*                                                                         *)
(* JavaScript strings are sequences of one-character strings, so that      *)
(* String.prototype.trim is computed and not assumed.  A JavaScript value  *)
(* that may or may not be a string is the record [isStr, s].               *)
(***************************************************************************)
EXTENDS Integers, Sequences, FiniteSets, TLC

VARIABLES
    vin,        \* validateTasks: the argument `tasks` (unknown[])
    vout,       \* validateTasks: what the call produced (return value or throw)
    vpc,        \* validateTasks: "call" before the call, "done" after it
    jobs,       \* JobModel collection: jobId -> document
    taskDocs,   \* TaskModel collection: jobId -> the documents of that job
    submit,     \* POST /submit handlers in flight: client -> position and locals
    responses,  \* the responses POST /submit has sent, in order
    proc,       \* processTranscript invocations: jobId -> position and locals
    llmCalls,   \* the calls of LLMService.generateTasks made so far, each with
                \* how it ended
    stc,        \* setTaskCompletion calls in flight: caller -> position and locals
    gin,        \* detectCycles: the argument `tasks` (ValidatedTask[])
    gout,       \* detectCycles: the CycleDetectionResult returned
    gpc,        \* detectCycles: "call" before the call, "done" after it,
                \* "resolved" once steps 4 to 6 of processTranscript have run
    gres,       \* what steps 4 to 6 of processTranscript make of gin and gout
    gwalk       \* detectCycles run statement by statement: the sets, the
                \* root loop, the stack of dfs calls, and what was expanded

vvars == <<vin, vout, vpc>>
jvars == <<jobs, taskDocs, submit, responses, proc, llmCalls, stc>>
gvars == <<gin, gout, gpc, gres, gwalk>>
vars == <<vin, vout, vpc, jobs, taskDocs, submit, responses, proc, llmCalls, stc,
          gin, gout, gpc, gres, gwalk>>

----------------------------------------------------------------------------
(* Strings and untyped values                                              *)

Str(s) == [isStr |-> TRUE, s |-> s]

\* any value for which `typeof v !== "string"` (undefined, null, a number)
NotStr == [isStr |-> FALSE, s |-> <<>>]

\* a priority that is not a string (priorities are whole-word strings)
NoPriority == [isStr |-> FALSE, s |-> ""]

RECURSIVE TrimLeft(_)
TrimLeft(s) ==
    IF s = <<>> THEN s
    ELSE IF Head(s) = " " THEN TrimLeft(Tail(s)) ELSE s

RECURSIVE TrimRight(_)
TrimRight(s) ==
    IF s = <<>> THEN s
    ELSE IF s[Len(s)] = " " THEN TrimRight(SubSeq(s, 1, Len(s) - 1)) ELSE s

\* String.prototype.trim
Trim(s) == TrimRight(TrimLeft(s))

\* the ids of a task sequence, as a set
IdSet(ts) == {ts[i].id : i \in 1..Len(ts)}

\* Array.from(new Set(xs)): first occurrences, in insertion order
RECURSIVE Dedup(_)
Dedup(xs) ==
    IF xs = <<>> THEN <<>>
    ELSE LET front == Dedup(SubSeq(xs, 1, Len(xs) - 1))
             last  == xs[Len(xs)]
         IN IF \E i \in 1..Len(front) : front[i] = last
            THEN front ELSE Append(front, last)

----------------------------------------------------------------------------
(* ValidationService                                                       *)

Priorities == {"low", "medium", "high"}

\* the value validateTaskSchema returns for a rejected record
NullTask ==
    [id |-> <<>>, description |-> <<>>, priority |-> "", dependencies |-> <<>>,
     status |-> "null"]

\* a mutant of SchemaDependencies: the kept entries are trimmed
SchemaDependenciesTrimmed(deps) ==
    LET kept == SelectSeq(deps, LAMBDA d : d.isStr /\ Trim(d.s) # <<>>)
    IN [i \in 1..Len(kept) |-> Trim(kept[i].s)]

\* t.dependencies.filter(dep => typeof dep === "string" && dep.trim() !== "")
\* the entries are kept as written: they are not trimmed
SchemaDependencies(deps) ==
    LET kept == SelectSeq(deps, LAMBDA d : d.isStr /\ Trim(d.s) # <<>>)
    IN [i \in 1..Len(kept) |-> kept[i].s]

\* a mutant of validateTaskSchema: the description is not checked and a
\* status the record supplies is kept
validateTaskSchemaLax(task) ==
    IF ~task.isObj THEN NullTask
    ELSE IF ~task.id.isStr \/ Trim(task.id.s) = <<>> THEN NullTask
    ELSE IF ~(task.priority.isStr /\ task.priority.s \in Priorities) THEN NullTask
    ELSE IF ~task.isArr THEN NullTask
    ELSE [id           |-> Trim(task.id.s),
          description  |-> IF task.description.isStr THEN Trim(task.description.s)
                           ELSE <<>>,
          priority     |-> task.priority.s,
          dependencies |-> SchemaDependencies(task.dependencies),
          status       |-> IF task.status.isStr THEN "supplied" ELSE "pending"]

\* validateTaskSchema: NullTask, or the task built from the record
validateTaskSchema(task) ==
    IF ~task.isObj THEN NullTask
    ELSE IF ~task.id.isStr \/ Trim(task.id.s) = <<>> THEN NullTask
    ELSE IF ~task.description.isStr \/ Trim(task.description.s) = <<>> THEN NullTask
    ELSE IF ~(task.priority.isStr /\ task.priority.s \in Priorities) THEN NullTask
    ELSE IF ~task.isArr THEN NullTask
    ELSE [id           |-> Trim(task.id.s),
          description  |-> Trim(task.description.s),
          priority     |-> task.priority.s,
          dependencies |-> SchemaDependencies(task.dependencies),
          status       |-> "pending"]

\* a mutant of FirstPassStep: a repeated id is dropped silently
FirstPassStepSilent(acc, task) ==
    LET validated_task == validateTaskSchema(task)
    IN IF validated_task = NullTask THEN acc
       ELSE IF validated_task.id \in acc.validTaskIds THEN acc
       ELSE [acc EXCEPT !.validated = Append(@, validated_task),
                        !.validTaskIds = @ \cup {validated_task.id}]

\* one iteration of the first loop of validateTasks
FirstPassStep(acc, task) ==
    LET validated_task == validateTaskSchema(task)
    IN IF validated_task = NullTask THEN acc
       ELSE IF validated_task.id \in acc.validTaskIds
            THEN [acc EXCEPT !.duplicateIds = Append(@, validated_task.id)]
       ELSE [acc EXCEPT !.validated = Append(@, validated_task),
                        !.validTaskIds = @ \cup {validated_task.id}]

\* the first loop: validated, validTaskIds and duplicateIds after all records
RECURSIVE FirstPass(_)
FirstPass(tasks) ==
    IF tasks = <<>>
    THEN [validated |-> <<>>, validTaskIds |-> {}, duplicateIds |-> <<>>]
    ELSE FirstPassStep(FirstPass(SubSeq(tasks, 1, Len(tasks) - 1)), tasks[Len(tasks)])

\* a mutant of DependencyFilter: no dependency is removed
DependencyFilterKeepAll(dependencies, validTaskIds) == dependencies

\* task.dependencies.filter(depId => validTaskIds.has(depId))
DependencyFilter(dependencies, validTaskIds) ==
    SelectSeq(dependencies, LAMBDA depId : depId \in validTaskIds)

\* a mutant of SecondPass: a dependency is kept only when it names a task
\* that comes no later in the sequence
RECURSIVE SecondPassSeenSoFar(_, _)
SecondPassSeenSoFar(validated, validTaskIds) ==
    IF validated = <<>> THEN [sanitized |-> <<>>, invalidCount |-> 0]
    ELSE LET rest == SecondPassSeenSoFar(SubSeq(validated, 1, Len(validated) - 1),
                                         validTaskIds)
             task == validated[Len(validated)]
             dependencies == SelectSeq(task.dependencies,
                                       LAMBDA depId : depId \in IdSet(validated))
         IN [sanitized    |-> Append(rest.sanitized,
                                     [task EXCEPT !.dependencies = dependencies]),
             invalidCount |-> rest.invalidCount
                                + (Len(task.dependencies) - Len(dependencies))]

\* the second loop: sanitized tasks and invalidCount
RECURSIVE SecondPass(_, _)
SecondPass(validated, validTaskIds) ==
    IF validated = <<>> THEN [sanitized |-> <<>>, invalidCount |-> 0]
    ELSE LET rest == SecondPass(SubSeq(validated, 1, Len(validated) - 1), validTaskIds)
             task == validated[Len(validated)]
             originalDepsLength == Len(task.dependencies)
             dependencies == DependencyFilter(task.dependencies, validTaskIds)
         IN [sanitized    |-> Append(rest.sanitized,
                                     [task EXCEPT !.dependencies = dependencies]),
             invalidCount |-> rest.invalidCount
                                + (originalDepsLength - Len(dependencies))]

NoMessage == [kind |-> "none", ids |-> <<>>]

\* a mutant of DuplicateMessage: the message names no id
DuplicateMessageNoIds(duplicateIds) == [kind |-> "duplicate", ids |-> <<>>]

\* `Validation failed: duplicate task IDs detected: ${ids.join(', ')}`
DuplicateMessage(duplicateIds) == [kind |-> "duplicate", ids |-> Dedup(duplicateIds)]

\* validateTasks: the returned object, or the thrown Error
validateTasks(tasks) ==
    LET first == FirstPass(tasks)
    IN IF Len(first.duplicateIds) > 0
       THEN [threw |-> TRUE, message |-> DuplicateMessage(first.duplicateIds),
             validated |-> <<>>, invalidDependenciesRemoved |-> 0]
       ELSE LET second == SecondPass(first.validated, first.validTaskIds)
            IN [threw |-> FALSE, message |-> NoMessage,
                validated |-> second.sanitized,
                invalidDependenciesRemoved |-> second.invalidCount]

----------------------------------------------------------------------------
(* GraphService                                                            *)

RECURSIVE AppendAll(_, _)
AppendAll(xs, ys) ==
    IF ys = <<>> THEN xs ELSE AppendAll(Append(xs, Head(ys)), Tail(ys))

\* a mutant of DeclaredDependencies: an entry naming the task itself is left
\* out of the graph
RECURSIVE DeclaredDependenciesNoSelf(_, _)
DeclaredDependenciesNoSelf(tasks, nodeId) ==
    IF tasks = <<>> THEN <<>>
    ELSE IF Head(tasks).id = nodeId
         THEN AppendAll(SelectSeq(Head(tasks).dependencies, LAMBDA dep : dep # nodeId),
                        DeclaredDependenciesNoSelf(Tail(tasks), nodeId))
         ELSE DeclaredDependenciesNoSelf(Tail(tasks), nodeId)

\* every dependency entry declared under one id, in task order
RECURSIVE DeclaredDependencies(_, _)
DeclaredDependencies(tasks, nodeId) ==
    IF tasks = <<>> THEN <<>>
    ELSE IF Head(tasks).id = nodeId
         THEN AppendAll(Head(tasks).dependencies, DeclaredDependencies(Tail(tasks), nodeId))
         ELSE DeclaredDependencies(Tail(tasks), nodeId)

\* every id that declares nodeId as a dependency, in task order
Dependents(tasks, nodeId) ==
    LET declaring == SelectSeq(tasks, LAMBDA t :
                        \E k \in 1..Len(t.dependencies) : t.dependencies[k] = nodeId)
    IN [i \in 1..Len(declaring) |-> declaring[i].id]

\* a mutant of Neighbors: edges are followed in both directions
NeighborsUndirected(tasks, nodeId) ==
    Dedup(AppendAll(DeclaredDependencies(tasks, nodeId), Dependents(tasks, nodeId)))

\* a mutant of Neighbors: every declared entry is pushed, repeated or not
NeighborsRepeated(tasks, nodeId) == DeclaredDependencies(tasks, nodeId)

\* graph.get(nodeId) || []: the adjacency list, first occurrences only
Neighbors(tasks, nodeId) == Dedup(DeclaredDependencies(tasks, nodeId))

\* Array.prototype.indexOf, counted from 1; 0 when absent
IndexOf(xs, x) ==
    IF \E i \in 1..Len(xs) : xs[i] = x
    THEN CHOOSE i \in 1..Len(xs) : xs[i] = x /\ \A k \in 1..(i - 1) : xs[k] # x
    ELSE 0

\* the closure dfs of detectCycles; st holds visited, visiting, cycles and
\* errorTaskIds (a Set, kept in insertion order)
RECURSIVE dfs(_, _, _, _)
RECURSIVE dfsNeighbors(_, _, _, _)

\* a mutant of dfs: the whole path is reported, not its part from cycleStart
dfsWholePath(tasks, nodeId, path, st) ==
    IF nodeId \in st.visiting
    THEN LET cycleStart == IndexOf(path, nodeId)
         IN IF cycleStart # 0
            THEN LET cycle == Append(path, nodeId)
                 IN [st EXCEPT !.cycles = Append(@, cycle),
                               !.errorTaskIds = Dedup(AppendAll(@, cycle))]
            ELSE st
    ELSE IF nodeId \in st.visited THEN st
    ELSE LET entered == [st EXCEPT !.visiting = @ \cup {nodeId}]
             after   == dfsNeighbors(tasks, Neighbors(tasks, nodeId),
                                     Append(path, nodeId), entered)
         IN [after EXCEPT !.visiting = @ \ {nodeId}, !.visited = @ \cup {nodeId}]

dfs(tasks, nodeId, path, st) ==
    IF nodeId \in st.visiting
    THEN LET cycleStart == IndexOf(path, nodeId)
         IN IF cycleStart # 0
            THEN LET cycle == Append(SubSeq(path, cycleStart, Len(path)), nodeId)
                 IN [st EXCEPT !.cycles = Append(@, cycle),
                               !.errorTaskIds = Dedup(AppendAll(@, cycle))]
            ELSE st
    ELSE IF nodeId \in st.visited THEN st
    ELSE LET entered == [st EXCEPT !.visiting = @ \cup {nodeId}]
             after   == dfsNeighbors(tasks, Neighbors(tasks, nodeId),
                                     Append(path, nodeId), entered)
         IN [after EXCEPT !.visiting = @ \ {nodeId}, !.visited = @ \cup {nodeId}]

\* for (const neighbor of neighbors) dfs(neighbor, [...path])
dfsNeighbors(tasks, neighbors, path, st) ==
    IF neighbors = <<>> THEN st
    ELSE dfsNeighbors(tasks, Tail(neighbors), path, dfs(tasks, Head(neighbors), path, st))

\* a mutant of dfsRoots: the keys are taken from the last to the first
RECURSIVE dfsRootsLastFirst(_, _, _)
dfsRootsLastFirst(tasks, roots, st) ==
    IF roots = <<>> THEN st
    ELSE dfsRootsLastFirst(tasks, SubSeq(roots, 1, Len(roots) - 1),
                           IF roots[Len(roots)] \in st.visited THEN st
                           ELSE dfs(tasks, roots[Len(roots)], <<>>, st))

\* for (const taskId of graph.keys()) if (!visited.has(taskId)) dfs(taskId, [])
RECURSIVE dfsRoots(_, _, _)
dfsRoots(tasks, roots, st) ==
    IF roots = <<>> THEN st
    ELSE dfsRoots(tasks, Tail(roots),
                  IF Head(roots) \in st.visited THEN st
                  ELSE dfs(tasks, Head(roots), <<>>, st))

\* a mutant of detectCycles: dfs is run from the first key only
detectCyclesFirstRoot(tasks) ==
    LET keys == Dedup([i \in 1..Len(tasks) |-> tasks[i].id])
        st   == dfsRoots(tasks, SubSeq(keys, 1, IF Len(keys) > 0 THEN 1 ELSE 0),
                         [visited |-> {}, visiting |-> {}, cycles |-> <<>>,
                          errorTaskIds |-> <<>>])
    IN [hasCycle |-> Len(st.cycles) > 0, cycles |-> st.cycles,
        errorTaskIds |-> st.errorTaskIds]

\* GraphService.detectCycles
detectCycles(tasks) ==
    LET keys == Dedup([i \in 1..Len(tasks) |-> tasks[i].id])
        st   == dfsRoots(tasks, keys,
                         [visited |-> {}, visiting |-> {}, cycles |-> <<>>,
                          errorTaskIds |-> <<>>])
    IN [hasCycle |-> Len(st.cycles) > 0, cycles |-> st.cycles,
        errorTaskIds |-> st.errorTaskIds]

\* GraphService.markCyclicTasksAsError
markCyclicTasksAsError(tasks, cycleDetection) ==
    [i \in 1..Len(tasks) |->
        [tasks[i] EXCEPT !.status =
            IF \E k \in 1..Len(cycleDetection.errorTaskIds) :
                   cycleDetection.errorTaskIds[k] = tasks[i].id
            THEN "error" ELSE @]]

\* a mutant of determineTaskStatus: the outcome of the dependency test is
\* inverted
determineTaskStatusInverted(task, allTaskIds) ==
    IF task.status = "error" THEN "error"
    ELSE IF Len(task.dependencies) = 0 THEN "ready"
    ELSE IF \A k \in 1..Len(task.dependencies) : task.dependencies[k] \in allTaskIds
         THEN "ready" ELSE "blocked"

\* GraphService.determineTaskStatus
determineTaskStatus(task, allTaskIds) ==
    IF task.status = "error" THEN "error"
    ELSE IF Len(task.dependencies) = 0 THEN "ready"
    ELSE IF \A k \in 1..Len(task.dependencies) : task.dependencies[k] \in allTaskIds
         THEN "blocked" ELSE "ready"

----------------------------------------------------------------------------
(* The untyped records the model draws its inputs from                      *)

MaxRecords == 3

A == <<"a">>
B == <<"b">>
SpacedA == <<" ", "a">>
Ghost == <<"g">>
Blank == <<" ">>

\* the dependency arrays the records are drawn with
DependencyArrays ==
    { <<>>,
      <<Str(A)>>,
      <<Str(B), Str(A)>>,
      <<Str(A), Str(Ghost), Str(B)>>,
      <<NotStr, Str(Blank), Str(A)>>,
      <<Str(SpacedA)>> }

Record(id, description, priority, dependencies) ==
    [isObj |-> TRUE, id |-> id, description |-> description, priority |-> priority,
     isArr |-> TRUE, dependencies |-> dependencies, status |-> NotStr]

WellFormedRecords ==
    { Record(Str(id), Str(<<"d">>), Str("low"), deps) :
        id \in {A, SpacedA, B}, deps \in DependencyArrays }

MalformedRecords ==
    { [Record(NotStr, NotStr, NoPriority, <<>>) EXCEPT !.isObj = FALSE, !.isArr = FALSE],
      Record(NotStr, Str(<<"d">>), Str("high"), <<Str(A)>>),
      Record(Str(Blank), Str(<<"d">>), Str("high"), <<Str(A)>>),
      Record(Str(A), Str(Blank), Str("high"), <<Str(A)>>),
      Record(Str(A), Str(<<"d">>), Str("urgent"), <<Str(A)>>),
      Record(Str(Ghost), Str(<<"d">>), Str("urgent"), <<>>),
      [Record(Str(B), Str(<<"d">>), Str("medium"), <<>>) EXCEPT !.isArr = FALSE] }

\* a well-formed record that also supplies a status of its own
StatusRecords ==
    { [Record(Str(B), Str(<<"d", " ">>), Str("medium"), <<Str(A)>>)
         EXCEPT !.status = Str(<<"r">>)] }

RawRecords == WellFormedRecords \cup MalformedRecords \cup StatusRecords

Inputs == UNION {[1..n -> RawRecords] : n \in 0..MaxRecords}

----------------------------------------------------------------------------
(* The sanitized task sequences the cycle detector is called with          *)

MaxTasks == 3
MaxDeps == 3

C == <<"c">>

\* the ids of the tasks, in task order; the code never orders ids, so which
\* id comes first is immaterial
TaskIdPool == <<A, B, C, <<"d">>, <<"e">>>>

\* every dependency array over the ids of n tasks, repeated entries included
DependencyLists(n) ==
    UNION {[1..k -> {TaskIdPool[i] : i \in 1..n}] : k \in 0..MaxDeps}

\* a ValidatedTask as validateTasks returns it
SanitizedTask(id, dependencies) ==
    [id |-> id, description |-> <<"d">>, priority |-> "low",
     dependencies |-> dependencies, status |-> "pending"]

\* n tasks with unique ids, every dependency the id of one of them
SanitizedInput(n, deps) == [i \in 1..n |-> SanitizedTask(TaskIdPool[i], deps[i])]


----------------------------------------------------------------------------
(* The job store: JobModel and TaskModel documents                         *)

MaxSubmits == 3
MaxCompletions == 1

Clients == {"c1", "c2"}
Callers == {"p1"}
JobIds == 1..MaxSubmits

\* request bodies of POST /submit: "x" and "x " are equal after trimming;
\* the empty string, the blank one and the body without a string transcript
\* are rejected
RawTranscripts ==
    {Str(<<"x">>), Str(<<"x", " ">>), Str(<<>>), Str(Blank), NotStr}

\* absent `result` and absent document, with the shape of present ones
NoResult ==
    [tasks |-> <<>>, circularDependencies |-> <<>>,
     sanitizationReport |-> [invalidDependenciesRemoved |-> 0, tasksMarkedAsError |-> 0]]

NoJob ==
    [exists |-> FALSE, transcript |-> <<>>, transcriptHash |-> <<>>, status |-> "none",
     hasResult |-> FALSE, result |-> NoResult, hasError |-> FALSE, error |-> NoMessage,
     activities |-> <<>>]

\* crypto.createHash('sha256').update(transcript).digest('hex'): a digest that
\* differs from the text and is taken to be collision-free
hashTranscript(transcript) == <<"sha256">> \o transcript

\* a mutant of cleanTranscript: the text is used as submitted
cleanTranscriptRaw(transcript) == transcript.s

\* const cleanTranscript = transcript.trim()
cleanTranscript(transcript) == Trim(transcript.s)

\* a mutant of InvalidTranscript: the text is not trimmed before the test
InvalidTranscriptUntrimmed(transcript) ==
    \/ ~transcript.isStr
    \/ transcript.s = <<>>

\* !transcript || typeof transcript !== "string" || !transcript.trim()
InvalidTranscript(transcript) ==
    \/ ~transcript.isStr
    \/ transcript.s = <<>>
    \/ Trim(transcript.s) = <<>>

\* DatabaseService.findExistingJob: the jobId found, 0 for null
findExistingJob(transcript) ==
    LET hash  == hashTranscript(transcript)
        found == {j \in JobIds : jobs[j].exists /\ jobs[j].transcriptHash = hash}
    IN IF found = {} THEN 0 ELSE CHOOSE j \in found : \A k \in found : j <= k

\* a mutant of UniqueViolation: only jobId is unique
UniqueViolationJobIdOnly(jobId, hash) == jobs[jobId].exists

\* JobSchema: jobId and transcriptHash are `unique: true`
UniqueViolation(jobId, hash) ==
    \E j \in JobIds : jobs[j].exists /\ (j = jobId \/ jobs[j].transcriptHash = hash)

\* the document DatabaseService.createJob saves
NewJob(transcript) ==
    [NoJob EXCEPT !.exists = TRUE, !.transcript = transcript,
                  !.transcriptHash = hashTranscript(transcript),
                  !.status = "processing"]

\* a mutant of completeJobUpdate: the status is set without the result
completeJobUpdateStatusOnly(job, result) ==
    IF job.exists THEN [job EXCEPT !.status = "done"] ELSE job

\* DatabaseService.completeJob: updateOne({jobId}, {$set: {status: 'done', result}})
completeJobUpdate(job, result) ==
    IF job.exists
    THEN [job EXCEPT !.status = "done", !.hasResult = TRUE, !.result = result]
    ELSE job

\* DatabaseService.failJob: updateOne({jobId}, {$set: {status: 'error', error}})
failJobUpdate(job, error) ==
    IF job.exists
    THEN [job EXCEPT !.status = "error", !.hasError = TRUE, !.error = error]
    ELSE job

\* DatabaseService.saveTasks: {jobId, taskId: task.id, ...task} under TaskSchema
TaskDocuments(tasks) ==
    [i \in 1..Len(tasks) |->
        [taskId |-> tasks[i].id, description |-> tasks[i].description,
         priority |-> tasks[i].priority, dependencies |-> tasks[i].dependencies,
         status |-> tasks[i].status]]

\* GET /status/:jobId: the body sent for a job document
StatusResponse(job) ==
    IF job.status = "done"
    THEN [status |-> "done", hasResult |-> job.hasResult, result |-> job.result,
          hasError |-> FALSE, error |-> NoMessage]
    ELSE IF job.status = "error"
    THEN [status |-> "error", hasResult |-> FALSE, result |-> NoResult,
          hasError |-> job.hasError, error |-> job.error]
    ELSE [status |-> "processing", hasResult |-> FALSE, result |-> NoResult,
          hasError |-> FALSE, error |-> NoMessage]

----------------------------------------------------------------------------
(* JobProcessorService.processTranscript, between the model call and the   *)
(* first store write: steps 2 to 6, which do not suspend                   *)

\* the tasks of a stored result; `completed` is absent until it is set
ResultTasks(tasks) ==
    [i \in 1..Len(tasks) |->
        [id |-> tasks[i].id, description |-> tasks[i].description,
         priority |-> tasks[i].priority, dependencies |-> tasks[i].dependencies,
         status |-> tasks[i].status, completed |-> "unset"]]

\* Step 5: the final status of every task
FinalTasks(processedTasks, allTaskIds) ==
    [i \in 1..Len(processedTasks) |->
        IF processedTasks[i].status = "error" THEN processedTasks[i]
        ELSE [processedTasks[i] EXCEPT !.status =
                 determineTaskStatus(processedTasks[i], allTaskIds)]]

\* Step 6: the result object
BuildResult(finalTasks, cycleResult, invalidDependenciesRemoved) ==
    [threw |-> FALSE, message |-> NoMessage, finalTasks |-> finalTasks,
     result |->
        [tasks |-> ResultTasks(finalTasks),
         circularDependencies |-> cycleResult.cycles,
         sanitizationReport |->
            [invalidDependenciesRemoved |-> invalidDependenciesRemoved,
             tasksMarkedAsError |-> Len(cycleResult.errorTaskIds)]]]

\* Steps 4 to 6, given the tasks marked by cycle detection
AfterMarking(processedTasks, cycleResult, invalidDependenciesRemoved) ==
    BuildResult(FinalTasks(processedTasks, IdSet(processedTasks)), cycleResult,
                invalidDependenciesRemoved)

\* a mutant of AfterCycleDetection: a cycle is thrown as an error
AfterCycleDetectionRejectCycles(sanitizedTasks, cycleResult, invalidDependenciesRemoved) ==
    IF cycleResult.hasCycle
    THEN [threw |-> TRUE, message |-> [kind |-> "cycle", ids |-> cycleResult.errorTaskIds],
          finalTasks |-> <<>>, result |-> NoResult]
    ELSE AfterMarking(markCyclicTasksAsError(sanitizedTasks, cycleResult), cycleResult,
                      invalidDependenciesRemoved)

\* Steps 3 to 6, given the result of cycle detection
AfterCycleDetection(sanitizedTasks, cycleResult, invalidDependenciesRemoved) ==
    AfterMarking(markCyclicTasksAsError(sanitizedTasks, cycleResult), cycleResult,
                 invalidDependenciesRemoved)

\* new Error("No valid tasks extracted from transcript")
NoValidTasksMessage == [kind |-> "no-valid-tasks", ids |-> <<>>]

\* a mutant of AfterValidation: an empty task sequence is processed like any
\* other
AfterValidationKeepEmpty(v) ==
    IF v.threw
    THEN [threw |-> TRUE, message |-> v.message, finalTasks |-> <<>>,
          result |-> NoResult]
    ELSE AfterCycleDetection(v.validated, detectCycles(v.validated),
                             v.invalidDependenciesRemoved)

\* what follows Step 2, given what validateTasks did
AfterValidation(v) ==
    IF v.threw
    THEN [threw |-> TRUE, message |-> v.message, finalTasks |-> <<>>,
          result |-> NoResult]
    ELSE IF Len(v.validated) = 0
    THEN [threw |-> TRUE, message |-> NoValidTasksMessage,
          finalTasks |-> <<>>, result |-> NoResult]
    ELSE AfterCycleDetection(v.validated, detectCycles(v.validated),
                             v.invalidDependenciesRemoved)

\* Steps 2 to 6 of processTranscript on what the model returned: either an
\* error thrown (with its message) or the final tasks and the result object
Pipeline(llmOutput) == AfterValidation(validateTasks(llmOutput))

\* what LLMService.generateTasks may resolve to
LlmOutputs ==
    { <<>>,
      <<Record(Str(A), Str(<<"d">>), Str("low"), <<>>),
        Record(Str(B), Str(<<"d">>), Str("low"), <<Str(A)>>)>>,
      <<Record(Str(A), Str(<<"d">>), Str("low"), <<>>),
        Record(Str(SpacedA), Str(<<"d">>), Str("low"), <<>>)>>,
      <<Record(Str(Blank), Str(<<"d">>), Str("high"), <<Str(A)>>),
        Record(Str(A), Str(<<"d">>), Str("low"), <<Str(B), Str(A)>>),
        Record(Str(B), Str(<<"d">>), Str("low"), <<Str(A), Str(Ghost), Str(B)>>)>>,
      <<Record(Str(A), Str(<<"d">>), Str("urgent"), <<Str(A)>>)>> }

\* the characters transcript.split(/\n|\.|;|\t/) cuts at
FallbackSeparators == {"\n", ".", ";", "\t"}

\* String.prototype.split on those characters: the pieces between them
RECURSIVE SplitParts(_)
SplitParts(s) ==
    IF \E i \in 1..Len(s) : s[i] \in FallbackSeparators
    THEN LET i == CHOOSE i \in 1..Len(s) :
                      /\ s[i] \in FallbackSeparators
                      /\ \A k \in 1..(i - 1) : s[k] \notin FallbackSeparators
         IN <<SubSeq(s, 1, i - 1)>> \o SplitParts(SubSeq(s, i + 1, Len(s)))
    ELSE <<s>>

FallbackMaxParts == 8
DescriptionLimit == 200

\* .map((s) => s.trim()).filter(Boolean).slice(0, 8)
FallbackParts(transcript) ==
    LET pieces  == SplitParts(transcript)
        trimmed == [i \in 1..Len(pieces) |-> Trim(pieces[i])]
        kept    == SelectSeq(trimmed, LAMBDA p : p # <<>>)
    IN SubSeq(kept, 1, IF Len(kept) < FallbackMaxParts THEN Len(kept)
                       ELSE FallbackMaxParts)

\* the decimal digit of i + 1 in `task-${i + 1}`, for the at most 8 parts
TaskNumber == <<"1", "2", "3", "4", "5", "6", "7", "8">>

\* the local deterministic fallback of generateTasks: one medium task without
\* dependencies per part of the transcript
fallbackTasks(transcript) ==
    LET parts == FallbackParts(transcript)
    IN [i \in 1..Len(parts) |->
          Record(Str(<<"t", "a", "s", "k", "-", TaskNumber[i]>>),
                 Str(IF Len(parts[i]) > DescriptionLimit
                     THEN SubSeq(parts[i], 1, DescriptionLimit - 3) \o <<".", ".", ".">>
                     ELSE parts[i]),
                 Str("medium"), <<>>)]

StoreError == [kind |-> "store", ids |-> <<>>]
LlmError == [kind |-> "llm", ids |-> <<>>]

NoProc == [pc |-> "none", message |-> NoMessage, finalTasks |-> <<>>, result |-> NoResult]
IdleSubmit ==
    [pc |-> "idle", body |-> NotStr, transcript |-> <<>>, jobId |-> 0, startedAt |-> 0]
\* `calls` counts the calls of the caller that got past the two null returns
IdleCall ==
    [pc |-> "idle", jobId |-> 0, taskId |-> <<>>, completed |-> FALSE,
     result |-> NoResult, returned |-> "none", calls |-> 0]

----------------------------------------------------------------------------
(* POST /submit                                                            *)

\* requests received so far: answered ones and those awaiting createJob
Submitted == Len(responses) + Cardinality({c \in Clients : submit[c].pc # "idle"})

\* uuidv4(): a jobId no earlier request drew
FreshJobId ==
    1 + Cardinality({i \in 1..Len(responses) : responses[i].via \in {"created", "conflict"}})
      + Cardinality({c \in Clients : submit[c].pc = "create"})

\* a response sent, with the request body it answers; `via` names the branch
\* of the handler that sent it and `startedAt` the number of responses that
\* had been sent when the handler read the store
Response(code, jobId, body, via, startedAt) ==
    [code |-> code, jobId |-> jobId, body |-> body, via |-> via,
     startedAt |-> startedAt]

\* the request is rejected with 400 before anything is read or written
SubmitInvalid(c, transcript) ==
    /\ submit[c].pc = "idle"
    /\ Submitted < MaxSubmits
    /\ InvalidTranscript(transcript)
    /\ responses' = Append(responses, Response(400, 0, transcript, "invalid", Len(responses)))
    /\ UNCHANGED <<jobs, taskDocs, submit, proc, llmCalls, stc>>
    /\ UNCHANGED <<vvars, gvars>>

\* a valid request, up to the answer of findExistingJob: 200 with the job
\* found, or a fresh jobId and the call of createJob
SubmitFind(c, transcript) ==
    /\ submit[c].pc = "idle"
    /\ Submitted < MaxSubmits
    /\ ~InvalidTranscript(transcript)
    /\ LET clean         == cleanTranscript(transcript)
           existingJobId == findExistingJob(clean)
       IN IF existingJobId # 0
          THEN /\ responses' = Append(responses,
                     Response(200, existingJobId, transcript, "found", Len(responses)))
               /\ UNCHANGED submit
          ELSE /\ submit' = [submit EXCEPT ![c] =
                     [pc |-> "create", body |-> transcript, transcript |-> clean,
                      jobId |-> FreshJobId, startedAt |-> Len(responses)]]
               /\ UNCHANGED responses
    /\ UNCHANGED <<jobs, taskDocs, proc, llmCalls, stc>>
    /\ UNCHANGED <<vvars, gvars>>

\* a mutant of SubmitCreate: 202 is sent and processTranscript started
\* although createJob saved nothing
SubmitCreateUnsaved(c) ==
    /\ submit[c].pc = "create"
    /\ LET jobId      == submit[c].jobId
           transcript == submit[c].transcript
       IN /\ responses' = Append(responses,
                Response(202, jobId, submit[c].body, "created", submit[c].startedAt))
          /\ proc' = [proc EXCEPT ![jobId] = [NoProc EXCEPT !.pc = "llm"]]
          /\ llmCalls' = Append(llmCalls,
                [jobId |-> jobId, transcript |-> transcript,
                 outcome |-> "pending", output |-> <<>>])
    /\ submit' = [submit EXCEPT ![c] = IdleSubmit]
    /\ UNCHANGED <<jobs, taskDocs, stc>>
    /\ UNCHANGED <<vvars, gvars>>

\* createJob completes: on a uniqueness violation save() throws and the
\* handler answers 500; otherwise 202 is sent and processTranscript is
\* started, which calls generateTasks at once
SubmitCreate(c) ==
    /\ submit[c].pc = "create"
    /\ LET jobId      == submit[c].jobId
           transcript == submit[c].transcript
       IN IF UniqueViolation(jobId, hashTranscript(transcript))
          THEN /\ responses' = Append(responses,
                     Response(500, 0, submit[c].body, "conflict", submit[c].startedAt))
               /\ UNCHANGED <<jobs, proc, llmCalls>>
          ELSE /\ jobs' = [jobs EXCEPT ![jobId] = NewJob(transcript)]
               /\ responses' = Append(responses,
                     Response(202, jobId, submit[c].body, "created", submit[c].startedAt))
               /\ proc' = [proc EXCEPT ![jobId] = [NoProc EXCEPT !.pc = "llm"]]
               /\ llmCalls' = Append(llmCalls,
                     [jobId |-> jobId, transcript |-> transcript,
                      outcome |-> "pending", output |-> <<>>])
    /\ submit' = [submit EXCEPT ![c] = IdleSubmit]
    /\ UNCHANGED <<taskDocs, stc>>
    /\ UNCHANGED <<vvars, gvars>>

----------------------------------------------------------------------------
(* JobProcessorService.processTranscript                                   *)

\* the call of generateTasks that processTranscript made for job j
CallOf(j) == CHOOSE n \in 1..Len(llmCalls) : llmCalls[n].jobId = j

\* a mutant of ProcAfterPipeline: completeJob is called without saveTasks
ProcAfterPipelineSkipSave(r) ==
    IF r.threw
    THEN [NoProc EXCEPT !.pc = "failJob", !.message = r.message]
    ELSE [NoProc EXCEPT !.pc = "completeJob", !.finalTasks = r.finalTasks,
                        !.result = r.result]

\* where processTranscript stands once Steps 2 to 6 have run: in the catch
\* block with the message thrown, or about to persist the result
ProcAfterPipeline(r) ==
    IF r.threw
    THEN [NoProc EXCEPT !.pc = "failJob", !.message = r.message]
    ELSE [NoProc EXCEPT !.pc = "saveTasks", !.finalTasks = r.finalTasks,
                        !.result = r.result]

\* generateTasks resolves; steps 2 to 6 run and the next store call is made
LlmReturn(j, llmOutput) ==
    /\ proc[j].pc = "llm"
    /\ proc' = [proc EXCEPT ![j] = ProcAfterPipeline(Pipeline(llmOutput))]
    /\ llmCalls' = [llmCalls EXCEPT ![CallOf(j)].outcome = "resolved",
                                    ![CallOf(j)].output = llmOutput]
    /\ UNCHANGED <<jobs, taskDocs, submit, responses, stc>>
    /\ UNCHANGED <<vvars, gvars>>

\* the provider call inside generateTasks fails (or answers without content)
\* and HF_API_KEY is not set, or the second provider answers without text:
\* generateTasks resolves to the local fallback tasks, and steps 2 to 6 run
\* on them
LlmFallback(j) ==
    /\ proc[j].pc = "llm"
    /\ LET llmOutput == fallbackTasks(llmCalls[CallOf(j)].transcript)
       IN /\ proc' = [proc EXCEPT ![j] = ProcAfterPipeline(Pipeline(llmOutput))]
          /\ llmCalls' = [llmCalls EXCEPT ![CallOf(j)].outcome = "fallback",
                                          ![CallOf(j)].output = llmOutput]
    /\ UNCHANGED <<jobs, taskDocs, submit, responses, stc>>
    /\ UNCHANGED <<vvars, gvars>>

\* generateTasks rejects: both providers failed, the text is not JSON, or
\* the JSON is not an array
LlmThrow(j) ==
    /\ proc[j].pc = "llm"
    /\ proc' = [proc EXCEPT ![j] = [NoProc EXCEPT !.pc = "failJob", !.message = LlmError]]
    /\ llmCalls' = [llmCalls EXCEPT ![CallOf(j)].outcome = "rejected"]
    /\ UNCHANGED <<jobs, taskDocs, submit, responses, stc>>
    /\ UNCHANGED <<vvars, gvars>>

\* saveTasks: insertMany succeeds
SaveTasks(j) ==
    /\ proc[j].pc = "saveTasks"
    /\ taskDocs' = [taskDocs EXCEPT ![j] = @ \o TaskDocuments(proc[j].finalTasks)]
    /\ proc' = [proc EXCEPT ![j].pc = "completeJob"]
    /\ UNCHANGED <<jobs, submit, responses, llmCalls, stc>>
    /\ UNCHANGED <<vvars, gvars>>

\* saveTasks: the ordered insertMany fails at some document; those before it
\* stay inserted
SaveTasksFail(j) ==
    /\ proc[j].pc = "saveTasks"
    /\ \E n \in 0..(Len(proc[j].finalTasks) - 1) :
          taskDocs' = [taskDocs EXCEPT ![j] =
                          @ \o SubSeq(TaskDocuments(proc[j].finalTasks), 1, n)]
    /\ proc' = [proc EXCEPT ![j] = [NoProc EXCEPT !.pc = "failJob", !.message = StoreError]]
    /\ UNCHANGED <<jobs, submit, responses, llmCalls, stc>>
    /\ UNCHANGED <<vvars, gvars>>

\* completeJob succeeds and processTranscript resolves
CompleteJob(j) ==
    /\ proc[j].pc = "completeJob"
    /\ jobs' = [jobs EXCEPT ![j] = completeJobUpdate(@, proc[j].result)]
    /\ proc' = [proc EXCEPT ![j] = [NoProc EXCEPT !.pc = "returned"]]
    /\ UNCHANGED <<taskDocs, submit, responses, llmCalls, stc>>
    /\ UNCHANGED <<vvars, gvars>>

\* a mutant of CompleteJobFail: the update is applied and the call throws
CompleteJobFailApplied(j) ==
    /\ proc[j].pc = "completeJob"
    /\ jobs' = [jobs EXCEPT ![j] = completeJobUpdate(@, proc[j].result)]
    /\ proc' = [proc EXCEPT ![j] = [NoProc EXCEPT !.pc = "failJob", !.message = StoreError]]
    /\ UNCHANGED <<taskDocs, submit, responses, llmCalls, stc>>
    /\ UNCHANGED <<vvars, gvars>>

\* completeJob fails: nothing is written, the catch block calls failJob
CompleteJobFail(j) ==
    /\ proc[j].pc = "completeJob"
    /\ proc' = [proc EXCEPT ![j] = [NoProc EXCEPT !.pc = "failJob", !.message = StoreError]]
    /\ UNCHANGED <<jobs, taskDocs, submit, responses, llmCalls, stc>>
    /\ UNCHANGED <<vvars, gvars>>

\* a mutant of FailJob: the update has no { jobId } filter and marks every
\* job document
FailJobEveryJob(j) ==
    /\ proc[j].pc = "failJob"
    /\ jobs' = [k \in JobIds |-> failJobUpdate(jobs[k], proc[j].message)]
    /\ proc' = [proc EXCEPT ![j] = [NoProc EXCEPT !.pc = "returned"]]
    /\ UNCHANGED <<taskDocs, submit, responses, llmCalls, stc>>
    /\ UNCHANGED <<vvars, gvars>>

\* failJob succeeds and processTranscript resolves
FailJob(j) ==
    /\ proc[j].pc = "failJob"
    /\ jobs' = [jobs EXCEPT ![j] = failJobUpdate(@, proc[j].message)]
    /\ proc' = [proc EXCEPT ![j] = [NoProc EXCEPT !.pc = "returned"]]
    /\ UNCHANGED <<taskDocs, submit, responses, llmCalls, stc>>
    /\ UNCHANGED <<vvars, gvars>>

\* failJob fails inside the catch block: processTranscript rejects, and the
\* .catch of POST /submit logs the fault
FailJobFail(j) ==
    /\ proc[j].pc = "failJob"
    /\ proc' = [proc EXCEPT ![j] = [NoProc EXCEPT !.pc = "rejected"]]
    /\ UNCHANGED <<jobs, taskDocs, submit, responses, llmCalls, stc>>
    /\ UNCHANGED <<vvars, gvars>>

----------------------------------------------------------------------------
(* DatabaseService.setTaskCompletion                                       *)

\* completed ? 'completed' : 'ready'
CompletionStatus(completed) == IF completed THEN "completed" ELSE "ready"

\* t.completed = completed; t.status = ...  on the first task with the id
SetInResult(result, taskId, completed) ==
    LET i == CHOOSE i \in 1..Len(result.tasks) :
                 /\ result.tasks[i].id = taskId
                 /\ \A k \in 1..(i - 1) : result.tasks[k].id # taskId
    IN [result EXCEPT !.tasks[i].completed = IF completed THEN "true" ELSE "false",
                      !.tasks[i].status = CompletionStatus(completed)]

\* TaskModel.updateOne({jobId, taskId}, {$set: {status}}): the first match
SetInTaskDocs(docs, taskId, completed) ==
    IF \E i \in 1..Len(docs) : docs[i].taskId = taskId
    THEN LET i == CHOOSE i \in 1..Len(docs) :
                      /\ docs[i].taskId = taskId
                      /\ \A k \in 1..(i - 1) : docs[k].taskId # taskId
         IN [docs EXCEPT ![i].status = CompletionStatus(completed)]
    ELSE docs

\* a mutant of StcCall: the activity is pushed and saved before the two null
\* returns
StcCallLogsFirst(p, j, taskId, completed) ==
    /\ stc[p].pc = "idle"
    /\ LET job == jobs[j]
       IN IF \/ ~job.exists
             \/ ~job.hasResult
             \/ ~\E i \in 1..Len(job.result.tasks) : job.result.tasks[i].id = taskId
          THEN /\ stc' = [stc EXCEPT ![p] =
                     [IdleCall EXCEPT !.returned = "null", !.calls = stc[p].calls]]
               /\ jobs' = [jobs EXCEPT ![j].activities =
                              IF job.exists /\ Len(@) = 0
                              THEN <<[taskId |-> taskId, completed |-> completed]>>
                              ELSE @]
          ELSE /\ stc[p].calls < MaxCompletions
               /\ stc' = [stc EXCEPT ![p] =
                     [pc |-> "updateTask", jobId |-> j, taskId |-> taskId,
                      completed |-> completed,
                      result |-> SetInResult(job.result, taskId, completed),
                      returned |-> "none", calls |-> stc[p].calls + 1]]
               /\ UNCHANGED jobs
    /\ UNCHANGED <<taskDocs, submit, responses, proc, llmCalls>>
    /\ UNCHANGED <<vvars, gvars>>

\* the call up to its first store write: findOne, the two null returns, and
\* the change of the task inside the loaded document
StcCall(p, j, taskId, completed) ==
    /\ stc[p].pc = "idle"
    /\ LET job == jobs[j]
       IN IF \/ ~job.exists
             \/ ~job.hasResult
             \/ ~\E i \in 1..Len(job.result.tasks) : job.result.tasks[i].id = taskId
          THEN stc' = [stc EXCEPT ![p] =
                     [IdleCall EXCEPT !.returned = "null", !.calls = stc[p].calls]]
          ELSE /\ stc[p].calls < MaxCompletions
               /\ stc' = [stc EXCEPT ![p] =
                     [pc |-> "updateTask", jobId |-> j, taskId |-> taskId,
                      completed |-> completed,
                      result |-> SetInResult(job.result, taskId, completed),
                      returned |-> "none", calls |-> stc[p].calls + 1]]
    /\ UNCHANGED <<jobs, taskDocs, submit, responses, proc, llmCalls>>
    /\ UNCHANGED <<vvars, gvars>>

\* TaskModel.updateOne succeeds
StcUpdateTask(p) ==
    /\ stc[p].pc = "updateTask"
    /\ taskDocs' = [taskDocs EXCEPT ![stc[p].jobId] =
                       SetInTaskDocs(@, stc[p].taskId, stc[p].completed)]
    /\ stc' = [stc EXCEPT ![p].pc = "save"]
    /\ UNCHANGED <<jobs, submit, responses, proc, llmCalls>>
    /\ UNCHANGED <<vvars, gvars>>

\* TaskModel.updateOne fails: the call throws
StcUpdateTaskFail(p) ==
    /\ stc[p].pc = "updateTask"
    /\ stc' = [stc EXCEPT ![p] =
          [IdleCall EXCEPT !.returned = "threw", !.calls = stc[p].calls]]
    /\ UNCHANGED <<jobs, taskDocs, submit, responses, proc, llmCalls>>
    /\ UNCHANGED <<vvars, gvars>>

\* job.save() succeeds.  Mongoose writes the paths it tracked as modified:
\* the push onto `activities`.  `result` is a Mixed path changed in place
\* with no markModified('result'); when the change is not tracked, the change
\* of the task is in the returned object only and is not written to the
\* document.
StcSave(p) ==
    /\ stc[p].pc = "save"
    /\ jobs' = [jobs EXCEPT ![stc[p].jobId].activities =
                   Append(@, [taskId |-> stc[p].taskId, completed |-> stc[p].completed])]
    /\ stc' = [stc EXCEPT ![p] =
          [IdleCall EXCEPT !.returned = "result", !.calls = stc[p].calls]]
    /\ UNCHANGED <<taskDocs, submit, responses, proc, llmCalls>>
    /\ UNCHANGED <<vvars, gvars>>

\* job.save() succeeds and writes `result` as well: the outcome when the
\* assignment `job.result.tasks = tasks` is tracked as a change.  Which of
\* the two outcomes a save has is decided by the Mongoose build, not by this
\* code, so both are steps of the model.  The whole `result` loaded by this
\* call is written back.
StcSaveResult(p) ==
    /\ stc[p].pc = "save"
    /\ jobs' = [jobs EXCEPT ![stc[p].jobId].activities =
                   Append(@, [taskId |-> stc[p].taskId, completed |-> stc[p].completed]),
                            ![stc[p].jobId].result = stc[p].result]
    /\ stc' = [stc EXCEPT ![p] =
          [IdleCall EXCEPT !.returned = "result", !.calls = stc[p].calls]]
    /\ UNCHANGED <<taskDocs, submit, responses, proc, llmCalls>>
    /\ UNCHANGED <<vvars, gvars>>

\* job.save() fails: the call throws
StcSaveFail(p) ==
    /\ stc[p].pc = "save"
    /\ stc' = [stc EXCEPT ![p] =
          [IdleCall EXCEPT !.returned = "threw", !.calls = stc[p].calls]]
    /\ UNCHANGED <<jobs, taskDocs, submit, responses, proc, llmCalls>>
    /\ UNCHANGED <<vvars, gvars>>

----------------------------------------------------------------------------
(* Specifications                                                          *)

NoOutput ==
    [threw |-> FALSE, message |-> NoMessage, validated |-> <<>>,
     invalidDependenciesRemoved |-> 0]

\* an empty store, no request in flight
JobInit ==
    /\ jobs = [j \in JobIds |-> NoJob]
    /\ taskDocs = [j \in JobIds |-> <<>>]
    /\ submit = [c \in Clients |-> IdleSubmit]
    /\ responses = <<>>
    /\ proc = [j \in JobIds |-> NoProc]
    /\ llmCalls = <<>>
    /\ stc = [p \in Callers |-> IdleCall]

\* detectCycles before any call
NoReport == [hasCycle |-> FALSE, cycles |-> <<>>, errorTaskIds |-> <<>>]

\* steps 4 to 6 not run
NoResolution ==
    [threw |-> FALSE, message |-> NoMessage, finalTasks |-> <<>>, result |-> NoResult]

\* no call of the sanitizer under way
ValidateOff ==
    /\ vin = <<>>
    /\ vout = NoOutput
    /\ vpc = "off"

\* detectCycles not run statement by statement
WalkOff ==
    [pc |-> "off", roots |-> <<>>, stack |-> <<>>, visited |-> {}, visiting |-> {},
     cycles |-> <<>>, errorTaskIds |-> <<>>, expanded |-> <<>>, traversed |-> <<>>]

\* no call of the cycle detector under way
GraphOff ==
    /\ gin = <<>>
    /\ gout = NoReport
    /\ gpc = "off"
    /\ gres = NoResolution
    /\ gwalk = WalkOff

Init ==
    /\ JobInit
    /\ ValidateOff
    /\ GraphOff

\* the taskId arguments of setTaskCompletion: a task of the valid outputs and an unknown id
TaskIds == {B, Ghost}

Next ==
    \/ \E c \in Clients, t \in RawTranscripts : SubmitInvalid(c, t)
    \/ \E c \in Clients, t \in RawTranscripts : SubmitFind(c, t)
    \/ \E c \in Clients : SubmitCreate(c)
    \/ \E j \in JobIds, llmOutput \in LlmOutputs : LlmReturn(j, llmOutput)
    \/ \E j \in JobIds : LlmFallback(j)
    \/ \E j \in JobIds : LlmThrow(j)
    \/ \E j \in JobIds : SaveTasks(j)
    \/ \E j \in JobIds : SaveTasksFail(j)
    \/ \E j \in JobIds : CompleteJob(j)
    \/ \E j \in JobIds : CompleteJobFail(j)
    \/ \E j \in JobIds : FailJob(j)
    \/ \E j \in JobIds : FailJobFail(j)
    \/ \E p \in Callers, j \in JobIds, taskId \in TaskIds, completed \in BOOLEAN :
          StcCall(p, j, taskId, completed)
    \/ \E p \in Callers : StcUpdateTask(p)
    \/ \E p \in Callers : StcUpdateTaskFail(p)
    \/ \E p \in Callers : StcSave(p)
    \/ \E p \in Callers : StcSaveResult(p)
    \/ \E p \in Callers : StcSaveFail(p)

\* the job machine
Spec == Init /\ [][Next]_vars

InitV ==
    /\ vin \in Inputs
    /\ vout = NoOutput
    /\ vpc = "call"
    /\ JobInit
    /\ GraphOff

\* ValidationService.validateTasks(vin)
ValidateCall ==
    /\ vpc = "call"
    /\ vout' = validateTasks(vin)
    /\ vpc' = "done"
    /\ UNCHANGED vin
    /\ UNCHANGED <<jvars, gvars>>

NextV == ValidateCall

\* the sanitizer on its own, on every input of the universe
SpecV == InitV /\ [][NextV]_vars

InitG ==
    /\ \E n \in 0..MaxTasks : \E deps \in [1..n -> DependencyLists(n)] :
          gin = SanitizedInput(n, deps)
    /\ gout = NoReport
    /\ gpc = "call"
    /\ gres = NoResolution
    /\ gwalk = WalkOff
    /\ JobInit
    /\ ValidateOff

\* GraphService.detectCycles(gin)
DetectCall ==
    /\ gpc = "call"
    /\ gout' = detectCycles(gin)
    /\ gpc' = "done"
    /\ UNCHANGED <<gin, gres, gwalk>>
    /\ UNCHANGED <<jvars, vvars>>

\* steps 4 to 6 of processTranscript on the sanitized tasks and the report;
\* processTranscript has thrown before them when no task was left
ResolveCall ==
    /\ gpc = "done"
    /\ Len(gin) > 0
    /\ gres' = AfterCycleDetection(gin, gout, 0)
    /\ gpc' = "resolved"
    /\ UNCHANGED <<gin, gout, gwalk>>
    /\ UNCHANGED <<jvars, vvars>>

NextG == DetectCall \/ ResolveCall

\* the cycle detector on its own, on every sanitized task sequence of the universe
SpecG == InitG /\ [][NextG]_vars

\* two POST /submit requests with different transcripts have been answered
\* 202: two job documents in processing, and processTranscript of each
\* awaiting generateTasks
InitJ ==
    /\ jobs = [j \in JobIds |->
                  IF j = 1 THEN NewJob(<<"x">>)
                  ELSE IF j = 2 THEN NewJob(<<"y">>) ELSE NoJob]
    /\ taskDocs = [j \in JobIds |-> <<>>]
    /\ submit = [c \in Clients |-> IdleSubmit]
    /\ responses = <<Response(202, 1, Str(<<"x">>), "created", 0),
                     Response(202, 2, Str(<<"y">>), "created", 1)>>
    /\ proc = [j \in JobIds |-> IF j \in {1, 2} THEN [NoProc EXCEPT !.pc = "llm"]
                                ELSE NoProc]
    /\ llmCalls = <<[jobId |-> 1, transcript |-> <<"x">>, outcome |-> "pending",
                     output |-> <<>>],
                    [jobId |-> 2, transcript |-> <<"y">>, outcome |-> "pending",
                     output |-> <<>>]>>
    /\ stc = [p \in Callers |-> IdleCall]
    /\ ValidateOff
    /\ GraphOff

NextJ ==
    \/ \E j \in JobIds, llmOutput \in LlmOutputs : LlmReturn(j, llmOutput)
    \/ \E j \in JobIds : LlmFallback(j)
    \/ \E j \in JobIds : LlmThrow(j)
    \/ \E j \in JobIds : SaveTasks(j)
    \/ \E j \in JobIds : SaveTasksFail(j)
    \/ \E j \in JobIds : CompleteJob(j)
    \/ \E j \in JobIds : CompleteJobFail(j)
    \/ \E j \in JobIds : FailJob(j)
    \/ \E j \in JobIds : FailJobFail(j)

\* processTranscript of two jobs, under every interleaving of their awaits
SpecJ == InitJ /\ [][NextJ]_vars

\* two PATCH /status/:jobId/task/:taskId requests in flight at once
ConcurrentCallers == {"p1", "p2"}

\* a job that processTranscript has completed with the tasks a and b (b
\* depends on a), its two task records saved, and no PATCH request yet
InitC ==
    /\ \E llmOutput \in LlmOutputs :
          /\ Len(llmOutput) = 2
          /\ ~Pipeline(llmOutput).threw
          /\ jobs = [j \in JobIds |->
                        IF j = 1
                        THEN completeJobUpdate(NewJob(<<"x">>), Pipeline(llmOutput).result)
                        ELSE NoJob]
          /\ taskDocs = [j \in JobIds |->
                            IF j = 1 THEN TaskDocuments(Pipeline(llmOutput).finalTasks)
                            ELSE <<>>]
          /\ llmCalls = <<[jobId |-> 1, transcript |-> <<"x">>, outcome |-> "resolved",
                           output |-> llmOutput]>>
    /\ submit = [c \in Clients |-> IdleSubmit]
    /\ responses = <<Response(202, 1, Str(<<"x">>), "created", 0)>>
    /\ proc = [j \in JobIds |-> IF j = 1 THEN [NoProc EXCEPT !.pc = "returned"]
                                ELSE NoProc]
    /\ stc = [p \in ConcurrentCallers |-> IdleCall]
    /\ ValidateOff
    /\ GraphOff

NextC ==
    \/ \E p \in ConcurrentCallers, j \in JobIds, taskId \in {A, B}, completed \in BOOLEAN :
          StcCall(p, j, taskId, completed)
    \/ \E p \in ConcurrentCallers : StcUpdateTask(p)
    \/ \E p \in ConcurrentCallers : StcUpdateTaskFail(p)
    \/ \E p \in ConcurrentCallers : StcSave(p)
    \/ \E p \in ConcurrentCallers : StcSaveResult(p)
    \/ \E p \in ConcurrentCallers : StcSaveFail(p)

\* setTaskCompletion called by two requests at once on a done job
SpecC == InitC /\ [][NextC]_vars

\* detectCycles entered: the adjacency list is built, the four collections
\* are empty and the root loop is before its first key
InitD ==
    /\ \E n \in 0..MaxTasks : \E deps \in [1..n -> DependencyLists(n)] :
          gin = SanitizedInput(n, deps)
    /\ gout = NoReport
    /\ gpc = "steps"
    /\ gres = NoResolution
    /\ gwalk = [WalkOff EXCEPT !.pc = "run",
                               !.roots = Dedup([i \in 1..Len(gin) |-> gin[i].id])]
    /\ JobInit
    /\ ValidateOff

\* a call dfs(nodeId, path) that has not yet run its first statement
DfsFrame(nodeId, path) ==
    [nodeId |-> nodeId, path |-> path, pc |-> "entry", neighbors |-> <<>>]

\* the innermost dfs call, and the stack once it has returned
DfsTop == gwalk.stack[Len(gwalk.stack)]
DfsPop == SubSeq(gwalk.stack, 1, Len(gwalk.stack) - 1)

\* for (const taskId of graph.keys()) if (!visited.has(taskId)) dfs(taskId, [])
DetectRoot ==
    /\ gwalk.pc = "run"
    /\ gwalk.stack = <<>>
    /\ gwalk.roots # <<>>
    /\ gwalk' = [gwalk EXCEPT !.roots = Tail(@),
                              !.stack = IF Head(gwalk.roots) \in gwalk.visited
                                        THEN <<>>
                                        ELSE <<DfsFrame(Head(gwalk.roots), <<>>)>>]
    /\ UNCHANGED <<gin, gout, gpc, gres>>
    /\ UNCHANGED <<jvars, vvars>>

\* if (visiting.has(nodeId)) { ... cycles.push(cycle) ...; return }
DfsCycle ==
    /\ gwalk.pc = "run"
    /\ gwalk.stack # <<>>
    /\ DfsTop.pc = "entry"
    /\ DfsTop.nodeId \in gwalk.visiting
    /\ LET cycleStart == IndexOf(DfsTop.path, DfsTop.nodeId)
           cycle == Append(SubSeq(DfsTop.path, cycleStart, Len(DfsTop.path)),
                           DfsTop.nodeId)
       IN gwalk' = IF cycleStart # 0
                   THEN [gwalk EXCEPT !.cycles = Append(@, cycle),
                                      !.errorTaskIds = Dedup(AppendAll(@, cycle)),
                                      !.stack = DfsPop]
                   ELSE [gwalk EXCEPT !.stack = DfsPop]
    /\ UNCHANGED <<gin, gout, gpc, gres>>
    /\ UNCHANGED <<jvars, vvars>>

\* if (visited.has(nodeId)) return
DfsVisited ==
    /\ gwalk.pc = "run"
    /\ gwalk.stack # <<>>
    /\ DfsTop.pc = "entry"
    /\ DfsTop.nodeId \notin gwalk.visiting
    /\ DfsTop.nodeId \in gwalk.visited
    /\ gwalk' = [gwalk EXCEPT !.stack = DfsPop]
    /\ UNCHANGED <<gin, gout, gpc, gres>>
    /\ UNCHANGED <<jvars, vvars>>

\* a mutant of DfsEnter: path.push(nodeId) is left out
DfsEnterNoPush ==
    /\ gwalk.pc = "run"
    /\ gwalk.stack # <<>>
    /\ DfsTop.pc = "entry"
    /\ DfsTop.nodeId \notin gwalk.visiting
    /\ DfsTop.nodeId \notin gwalk.visited
    /\ gwalk' = [gwalk EXCEPT !.visiting = @ \cup {DfsTop.nodeId},
                              !.expanded = Append(@, DfsTop.nodeId),
                              !.stack[Len(gwalk.stack)] =
                                  [nodeId |-> DfsTop.nodeId,
                                   path |-> DfsTop.path,
                                   pc |-> "loop",
                                   neighbors |-> Neighbors(gin, DfsTop.nodeId)]]
    /\ UNCHANGED <<gin, gout, gpc, gres>>
    /\ UNCHANGED <<jvars, vvars>>

\* visiting.add(nodeId); path.push(nodeId); const neighbors = graph.get(nodeId) || []
DfsEnter ==
    /\ gwalk.pc = "run"
    /\ gwalk.stack # <<>>
    /\ DfsTop.pc = "entry"
    /\ DfsTop.nodeId \notin gwalk.visiting
    /\ DfsTop.nodeId \notin gwalk.visited
    /\ gwalk' = [gwalk EXCEPT !.visiting = @ \cup {DfsTop.nodeId},
                              !.expanded = Append(@, DfsTop.nodeId),
                              !.stack[Len(gwalk.stack)] =
                                  [nodeId |-> DfsTop.nodeId,
                                   path |-> Append(DfsTop.path, DfsTop.nodeId),
                                   pc |-> "loop",
                                   neighbors |-> Neighbors(gin, DfsTop.nodeId)]]
    /\ UNCHANGED <<gin, gout, gpc, gres>>
    /\ UNCHANGED <<jvars, vvars>>

\* for (const neighbor of neighbors) dfs(neighbor, [...path]): the next call
DfsNeighbor ==
    /\ gwalk.pc = "run"
    /\ gwalk.stack # <<>>
    /\ DfsTop.pc = "loop"
    /\ DfsTop.neighbors # <<>>
    /\ gwalk' = [gwalk EXCEPT !.traversed =
                                  Append(@, <<DfsTop.nodeId, Head(DfsTop.neighbors)>>),
                              !.stack =
                                  Append([gwalk.stack EXCEPT
                                             ![Len(gwalk.stack)].neighbors = Tail(@)],
                                         DfsFrame(Head(DfsTop.neighbors), DfsTop.path))]
    /\ UNCHANGED <<gin, gout, gpc, gres>>
    /\ UNCHANGED <<jvars, vvars>>

\* a mutant of DfsLeave: the node is added to visited and stays in visiting
DfsLeaveStillVisiting ==
    /\ gwalk.pc = "run"
    /\ gwalk.stack # <<>>
    /\ DfsTop.pc = "loop"
    /\ DfsTop.neighbors = <<>>
    /\ gwalk' = [gwalk EXCEPT !.visited = @ \cup {DfsTop.nodeId},
                              !.stack = DfsPop]
    /\ UNCHANGED <<gin, gout, gpc, gres>>
    /\ UNCHANGED <<jvars, vvars>>

\* the loop is over: visiting.delete(nodeId); visited.add(nodeId)
DfsLeave ==
    /\ gwalk.pc = "run"
    /\ gwalk.stack # <<>>
    /\ DfsTop.pc = "loop"
    /\ DfsTop.neighbors = <<>>
    /\ gwalk' = [gwalk EXCEPT !.visiting = @ \ {DfsTop.nodeId},
                              !.visited = @ \cup {DfsTop.nodeId},
                              !.stack = DfsPop]
    /\ UNCHANGED <<gin, gout, gpc, gres>>
    /\ UNCHANGED <<jvars, vvars>>

\* return { hasCycle: cycles.length > 0, cycles, errorTaskIds: Array.from(errorTaskIds) }
DetectReturn ==
    /\ gwalk.pc = "run"
    /\ gwalk.stack = <<>>
    /\ gwalk.roots = <<>>
    /\ gout' = [hasCycle |-> Len(gwalk.cycles) > 0, cycles |-> gwalk.cycles,
                errorTaskIds |-> gwalk.errorTaskIds]
    /\ gpc' = "done"
    /\ gwalk' = [gwalk EXCEPT !.pc = "returned"]
    /\ UNCHANGED <<gin, gres>>
    /\ UNCHANGED <<jvars, vvars>>

NextD ==
    \/ DetectRoot
    \/ DfsCycle
    \/ DfsVisited
    \/ DfsEnter
    \/ DfsNeighbor
    \/ DfsLeave
    \/ DetectReturn

\* detectCycles statement by statement, on every sanitized task sequence of
\* the universe
SpecD == InitD /\ [][NextD]_vars

----------------------------------------------------------------------------
(* Claims about the job machine                                            *)

Terminal == {"done", "error"}

\* C1: a job is created in status processing; its status changes only from
\* processing to done or to error, and never again afterwards.
C1_StatusMovesOnceToTerminal ==
    [][\A j \in JobIds :
          /\ (~jobs[j].exists /\ jobs'[j].exists) => jobs'[j].status = "processing"
          /\ jobs[j].exists =>
               /\ jobs'[j].exists
               /\ \/ jobs'[j].status = jobs[j].status
                  \/ /\ jobs[j].status = "processing"
                     /\ jobs'[j].status \in Terminal]_vars

\* a done job on which a later setTaskCompletion call was saved
C1_Witness ==
    \E j \in JobIds :
        /\ jobs[j].status = "done"
        /\ Len(jobs[j].activities) > 0

\* C2: once processTranscript was invoked for a job and has ended, the job
\* is in status done or error (it is not left in processing).
C2_EndsInTerminalStatus ==
    \A j \in JobIds :
        proc[j].pc \in {"returned", "rejected"} => jobs[j].status \in Terminal

\* C3: processTranscript never rejects to its caller.
C3_NeverRejects ==
    \A j \in JobIds : proc[j].pc # "rejected"

\* C4: when a submission was answered with a jobId and a later submission,
\* started after that answer, carries a text equal to it after trimming, the
\* later one is answered with the same jobId, and there is exactly one job
\* and exactly one model call for that text.
C4_SequentialResubmission ==
    \A i, k \in 1..Len(responses) :
        ( /\ i < k
          /\ responses[k].startedAt >= i
          /\ responses[i].via \in {"created", "found"}
          /\ ~InvalidTranscript(responses[k].body)
          /\ Trim(responses[k].body.s) = Trim(responses[i].body.s) )
        => LET text == Trim(responses[i].body.s)
           IN /\ responses[k].code = 200
              /\ responses[k].jobId = responses[i].jobId
              /\ Cardinality({j \in JobIds :
                     /\ jobs[j].exists
                     /\ jobs[j].transcriptHash = hashTranscript(text)}) = 1
              /\ Cardinality({n \in 1..Len(llmCalls) :
                     Trim(llmCalls[n].transcript) = text}) = 1

\* "x" accepted, then "x " answered with the same job, which is done by now
C4_Witness ==
    \E i, k \in 1..Len(responses) :
        /\ i < k
        /\ responses[k].startedAt >= i
        /\ responses[i].via = "created"
        /\ responses[k].via = "found"
        /\ responses[i].body # responses[k].body
        /\ responses[k].jobId = responses[i].jobId
        /\ jobs[responses[i].jobId].status = "done"

\* C5: a submission whose createJob hits the uniqueness constraint is
\* answered with the existing job, not with a failure.
C5_ConflictAnsweredWithExistingJob ==
    \A i \in 1..Len(responses) :
        responses[i].via = "conflict" =>
            /\ responses[i].code # 500
            /\ responses[i].jobId # 0
            /\ responses[i].jobId = findExistingJob(Trim(responses[i].body.s))

\* C6: at most one job document per content hash, and at most one model call
\* (one processTranscript) per content hash.
C6_OneJobAndOneCallPerHash ==
    /\ \A j, k \in JobIds :
          ( /\ jobs[j].exists
            /\ jobs[k].exists
            /\ jobs[j].transcriptHash = jobs[k].transcriptHash ) => j = k
    /\ \A m, n \in 1..Len(llmCalls) :
          hashTranscript(llmCalls[m].transcript) = hashTranscript(llmCalls[n].transcript)
              => m = n

\* two submissions raced: both passed the lookup, one created the job
C6_Witness ==
    /\ \E i \in 1..Len(responses) : responses[i].via = "conflict"
    /\ \E i \in 1..Len(responses) : responses[i].via = "created"
    /\ Len(llmCalls) = 1

\* C7: a job has a result iff its status is done and an error message iff its
\* status is error; GET /status yields processing, done with a result that
\* holds tasks, or error with a message.
C7_ResultIffDoneErrorIffError ==
    \A j \in JobIds :
        jobs[j].exists =>
            /\ jobs[j].status \in {"processing", "done", "error"}
            /\ jobs[j].hasResult <=> jobs[j].status = "done"
            /\ jobs[j].hasError <=> jobs[j].status = "error"
            /\ LET r == StatusResponse(jobs[j])
               IN /\ r.status = "done" =>
                        r.hasResult /\ Len(r.result.tasks) > 0 /\ ~r.hasError
                  /\ r.status = "error" =>
                        r.hasError /\ r.error # NoMessage /\ ~r.hasResult
                  /\ r.status = "processing" => ~r.hasResult /\ ~r.hasError

\* a job failed by a store fault after its task documents were saved
C7_Witness ==
    \E j \in JobIds :
        /\ jobs[j].status = "error"
        /\ jobs[j].error = StoreError
        /\ Len(taskDocs[j]) > 0

----------------------------------------------------------------------------
(* Claims about the sanitizer                                              *)

SchemaValid(r) == validateTaskSchema(r) # NullTask

\* the schema-valid records of an input, in input order
Survivors(tasks) == SelectSeq(tasks, SchemaValid)

\* ids carried, after trimming, by two or more schema-valid records
CollidingIds(tasks) ==
    { Trim(tasks[i].id.s) : i \in
        { i \in 1..Len(tasks) :
            /\ SchemaValid(tasks[i])
            /\ \E j \in 1..Len(tasks) :
                 /\ j # i
                 /\ SchemaValid(tasks[j])
                 /\ Trim(tasks[j].id.s) = Trim(tasks[i].id.s) } }

NoDangling(ts) ==
    \A i \in 1..Len(ts) : \A k \in 1..Len(ts[i].dependencies) :
        ts[i].dependencies[k] \in IdSet(ts)

\* C8: validateTasks either returns tasks whose every dependency id is the id
\* of a returned task, or throws the duplicate-id error; nothing else.
C8_NoDanglingOrDuplicateError ==
    vpc = "done" =>
        \/ /\ vout.threw
           /\ vout.message.kind = "duplicate"
        \/ /\ ~vout.threw
           /\ NoDangling(vout.validated)

\* a call that returned tasks after removing a dangling reference
C8_Witness ==
    /\ vpc = "done"
    /\ ~vout.threw
    /\ Len(vout.validated) >= 2
    /\ vout.invalidDependenciesRemoved > 0

\* C9: validateTasks throws iff two schema-valid records carry the same
\* trimmed id; the error names each colliding id exactly once and no task is
\* returned; the ids of a returned sequence are pairwise distinct.
C9_DuplicateIdsFailFast ==
    vpc = "done" =>
        /\ vout.threw <=> CollidingIds(vin) # {}
        /\ vout.threw =>
             /\ vout.validated = <<>>
             /\ {vout.message.ids[i] : i \in 1..Len(vout.message.ids)} = CollidingIds(vin)
             /\ Len(vout.message.ids) = Cardinality(CollidingIds(vin))
        /\ ~vout.threw =>
             \A i, j \in 1..Len(vout.validated) :
                 vout.validated[i].id = vout.validated[j].id => i = j

\* a call that threw on an id carried by three records
C9_Witness ==
    /\ vpc = "done"
    /\ vout.threw
    /\ Len(vin) = 3
    /\ \A i \in 1..3 : SchemaValid(vin[i]) /\ Trim(vin[i].id.s) = A
    /\ vout.message.ids = <<A>>

\* the entries of a raw dependency array that are ids of returned tasks
KeptEntries(deps, ids) ==
    LET kept == SelectSeq(deps, LAMBDA d : d.isStr /\ d.s \in ids)
    IN [i \in 1..Len(kept) |-> kept[i].s]

\* the entries the second pass removes: non-blank strings that are no id
RemovedEntries(deps, ids) ==
    Cardinality({i \in 1..Len(deps) :
        deps[i].isStr /\ Trim(deps[i].s) # <<>> /\ deps[i].s \notin ids})

RECURSIVE SumRemoved(_, _)
SumRemoved(records, ids) ==
    IF records = <<>> THEN 0
    ELSE RemovedEntries(Head(records).dependencies, ids) + SumRemoved(Tail(records), ids)

\* C10: on success each surviving task keeps exactly its dependency entries
\* that are ids of surviving tasks, in declared order, and
\* invalidDependenciesRemoved counts the entries removed from surviving tasks
\* for naming no surviving task; dropped records add nothing.
C10_DependenciesFilteredAndCounted ==
    (vpc = "done" /\ ~vout.threw) =>
        LET surv == Survivors(vin)
            ids  == IdSet(vout.validated)
        IN /\ Len(vout.validated) = Len(surv)
           /\ \A k \in 1..Len(surv) :
                vout.validated[k].dependencies = KeptEntries(surv[k].dependencies, ids)
           /\ vout.invalidDependenciesRemoved = SumRemoved(surv, ids)

\* Scenario C: [a, ghost, b] becomes [a, b] with count 1, next to a dropped record
C10_Witness ==
    /\ vpc = "done"
    /\ ~vout.threw
    /\ Len(vin) = 3
    /\ ~SchemaValid(vin[1])
    /\ vin[3].dependencies = <<Str(A), Str(Ghost), Str(B)>>
    /\ Len(vout.validated) = 2
    /\ vout.validated[2].dependencies = <<A, B>>
    /\ vout.invalidDependenciesRemoved = 1

\* a record the claim calls malformed: not an object, id or description
\* missing or empty once trimmed, priority outside the enum, or dependencies
\* not an array
Malformed(r) ==
    \/ ~r.isObj
    \/ ~r.id.isStr
    \/ \A i \in 1..Len(r.id.s) : r.id.s[i] = " "
    \/ ~r.description.isStr
    \/ \A i \in 1..Len(r.description.s) : r.description.s[i] = " "
    \/ ~r.priority.isStr
    \/ r.priority.s \notin {"low", "medium", "high"}
    \/ ~r.isArr

\* C11: a malformed record is dropped without failing the batch (the call
\* does what it does on the input without its malformed records); every
\* other record survives, in input order, with status pending whatever
\* status it supplied.
C11_MalformedDroppedOthersPending ==
    vpc = "done" =>
        LET others == SelectSeq(vin, LAMBDA r : ~Malformed(r))
        IN /\ vout = validateTasks(others)
           /\ \A i \in 1..Len(vin) :
                Malformed(vin[i]) <=> validateTaskSchema(vin[i]) = NullTask
           /\ ~vout.threw =>
                /\ Len(vout.validated) = Len(others)
                /\ \A k \in 1..Len(others) :
                     /\ vout.validated[k].id = Trim(others[k].id.s)
                     /\ vout.validated[k].description = Trim(others[k].description.s)
                     /\ vout.validated[k].priority = others[k].priority.s
                     /\ vout.validated[k].status = "pending"

\* a malformed record between a record that supplies a status and a plain
\* one: two tasks come back, both pending
C11_Witness ==
    /\ vpc = "done"
    /\ ~vout.threw
    /\ Len(vin) = 3
    /\ vin[1].status.isStr
    /\ Malformed(vin[2])
    /\ ~Malformed(vin[3])
    /\ Len(vout.validated) = 2
    /\ vout.validated[1].status = "pending"

----------------------------------------------------------------------------
(* Claims about the cycle detector                                         *)

\* the dependency graph: u -> v when v is a dependency of the task with id u
Edges(tasks) ==
    UNION { {<<tasks[i].id, tasks[i].dependencies[k]>> :
                k \in 1..Len(tasks[i].dependencies)} : i \in 1..Len(tasks) }

\* the pairs joined by a walk of 1 to n + 1 edges
RECURSIVE WalksWithin(_, _, _)
WalksWithin(E, R, n) ==
    IF n = 0 THEN R
    ELSE WalksWithin(E,
            R \cup {<<pq[1][1], pq[2][2]>> : pq \in {x \in R \X E : x[1][2] = x[2][1]}},
            n - 1)

\* the ids that lie on a directed cycle of the dependency graph
OnCycle(tasks) ==
    {u \in IdSet(tasks) :
        \E p \in WalksWithin(Edges(tasks), Edges(tasks), Len(tasks)) :
            p[1] = u /\ p[2] = u}

SeqToSet(xs) == {xs[i] : i \in 1..Len(xs)}

\* C12: detectCycles returns a report for every sanitized task sequence; on
\* an acyclic graph hasCycle is false and cycles and errorTaskIds are empty.
C12_AcyclicGraphsReportNothing ==
    gpc \in {"done", "resolved"} =>
        /\ gout.hasCycle \in BOOLEAN
        /\ gout.hasCycle <=> Len(gout.cycles) > 0
        /\ OnCycle(gin) = {} =>
              /\ ~gout.hasCycle
              /\ gout.cycles = <<>>
              /\ gout.errorTaskIds = <<>>

\* an acyclic graph in which a task is reached along two paths: c -> a and
\* c -> b -> a
C12_Witness ==
    /\ gpc = "done"
    /\ Len(gin) = 3
    /\ gin[1].dependencies = <<>>
    /\ gin[2].dependencies = <<A>>
    /\ gin[3].dependencies = <<B, A>>
    /\ ~gout.hasCycle

\* C13: every reported cycle is a closed walk of the dependency graph whose
\* ids are all in errorTaskIds, and errorTaskIds holds no other id.
C13_CyclesAreClosedWalks ==
    gpc \in {"done", "resolved"} =>
        /\ \A n \in 1..Len(gout.cycles) :
             LET cycle == gout.cycles[n]
             IN /\ Len(cycle) >= 2
                /\ cycle[1] = cycle[Len(cycle)]
                /\ \A k \in 1..(Len(cycle) - 1) :
                     <<cycle[k], cycle[k + 1]>> \in Edges(gin)
                /\ SeqToSet(cycle) \subseteq SeqToSet(gout.errorTaskIds)
        /\ SeqToSet(gout.errorTaskIds) \subseteq
              UNION {SeqToSet(gout.cycles[n]) : n \in 1..Len(gout.cycles)}

\* a -> b -> c -> b: the cycle reported starts inside the path
C13_Witness ==
    /\ gpc = "done"
    /\ Len(gin) = 3
    /\ gin[1].dependencies = <<B>>
    /\ gout.cycles = << <<B, C, B>> >>
    /\ gout.errorTaskIds = <<B, C>>

\* C14: errorTaskIds is the set of all tasks that lie on a directed cycle.
C14_ErrorTaskIdsAreAllCyclicTasks ==
    gpc \in {"done", "resolved"} => SeqToSet(gout.errorTaskIds) = OnCycle(gin)

----------------------------------------------------------------------------
(* Claims about task statuses                                              *)

\* the status the rules give a task: error when its id is in errorTaskIds,
\* else ready without dependencies, else blocked
RuledStatus(task, errorTaskIds) ==
    IF task.id \in errorTaskIds THEN "error"
    ELSE IF task.dependencies = <<>> THEN "ready"
    ELSE "blocked"

\* C15: in the result built for a job every task has the status of the
\* first matching rule (error, ready, blocked), so none is left pending.
C15_StatusByFirstMatchingRule ==
    gpc = "resolved" =>
        /\ ~gres.threw
        /\ Len(gres.result.tasks) = Len(gin)
        /\ gres.result.circularDependencies = gout.cycles
        /\ \A i \in 1..Len(gin) :
             /\ gres.result.tasks[i].id = gin[i].id
             /\ gres.result.tasks[i].dependencies = gin[i].dependencies
             /\ gres.result.tasks[i].status =
                    RuledStatus(gin[i], SeqToSet(gout.errorTaskIds))
             /\ gres.result.tasks[i].status # "pending"
             /\ gres.finalTasks[i].status = gres.result.tasks[i].status

\* Scenario A: a, b -> a, c -> b gives ready, blocked, blocked
C15_Witness ==
    /\ gpc = "resolved"
    /\ Len(gin) = 3
    /\ gin[1].dependencies = <<>>
    /\ gin[2].dependencies = <<A>>
    /\ gin[3].dependencies = <<B>>
    /\ gres.result.tasks[1].status = "ready"
    /\ gres.result.tasks[2].status = "blocked"
    /\ gres.result.tasks[3].status = "blocked"

\* the ids of the cycles a stored result reports
ReportedCycleIds(result) ==
    UNION {SeqToSet(result.circularDependencies[n]) :
              n \in 1..Len(result.circularDependencies)}

----------------------------------------------------------------------------
(* Claims about how a job ends                                             *)

\* generateTasks handed an array to processTranscript
Returned(n) == llmCalls[n].outcome \in {"resolved", "fallback"}

\* the sanitizer keeps no record of the output
KeepsNoTask(output) == \A i \in 1..Len(output) : Malformed(output[i])

\* the job ran into the catch block with that message before any task
\* document or result was written: it is never done, and it is in error with
\* the message once processTranscript has returned (failJob applied); only a
\* rejected failJob write leaves it in processing
FailedWith(j, message) ==
    /\ jobs[j].status # "done"
    /\ ~jobs[j].hasResult
    /\ taskDocs[j] = <<>>
    /\ proc[j].pc \in {"failJob", "returned", "rejected"}
    /\ proc[j].pc = "failJob" => proc[j].message = message
    /\ proc[j].pc = "returned" => jobs[j].status = "error"
    /\ jobs[j].status = "error" => jobs[j].hasError /\ jobs[j].error = message

ReportsTolerated(result, output) ==
    LET kept == SelectSeq(output, LAMBDA r : ~Malformed(r))
        ids  == {Trim(kept[i].id.s) : i \in 1..Len(kept)}
    IN /\ Len(result.tasks) = Len(kept)
       /\ \A i \in 1..Len(kept) :
            /\ result.tasks[i].id = Trim(kept[i].id.s)
            /\ SeqToSet(result.tasks[i].dependencies) \subseteq ids
       /\ result.circularDependencies =
              detectCycles(validateTasks(output).validated).cycles
       /\ result.sanitizationReport.invalidDependenciesRemoved =
              validateTasks(output).invalidDependenciesRemoved
       /\ result.sanitizationReport.tasksMarkedAsError =
              Len(detectCycles(validateTasks(output).validated).errorTaskIds)

\* C19: when the model call succeeds with at least one schema-valid record
\* and no duplicated id, the job ends in done, whatever cycles, dangling
\* references or malformed records the output holds; it is in error only
\* through a failed store write, and the done result reports what was
\* tolerated.
C19_ToleratedConditionsEndInDone ==
    \A n \in 1..Len(llmCalls) :
        LET j == llmCalls[n].jobId
            output == llmCalls[n].output
        IN (/\ llmCalls[n].outcome = "resolved"
            /\ ~KeepsNoTask(output)
            /\ CollidingIds(output) = {}) =>
              /\ proc[j].pc \in {"saveTasks", "completeJob", "failJob", "returned",
                                  "rejected"}
              /\ proc[j].pc = "failJob" => proc[j].message = StoreError
              /\ jobs[j].status = "error" => jobs[j].error = StoreError
              /\ proc[j].pc = "saveTasks" =>
                    /\ ReportsTolerated(proc[j].result, output)
                    /\ \A i \in 1..Len(proc[j].result.tasks) :
                          proc[j].result.tasks[i].status =
                              RuledStatus(proc[j].result.tasks[i],
                                          ReportedCycleIds(proc[j].result))
              /\ (proc[j].pc = "returned" /\ jobs[j].status # "error") =>
                    /\ jobs[j].status = "done"
                    /\ jobs[j].hasResult
                    /\ ReportsTolerated(jobs[j].result, output)

\* a done job whose output held a malformed record, a cycle and a dangling
\* reference
C19_Witness ==
    \E n \in 1..Len(llmCalls) :
        LET j == llmCalls[n].jobId
        IN /\ llmCalls[n].outcome = "resolved"
           /\ jobs[j].status = "done"
           /\ Len(jobs[j].result.tasks) < Len(llmCalls[n].output)
           /\ Len(jobs[j].result.circularDependencies) > 0
           /\ jobs[j].result.sanitizationReport.invalidDependenciesRemoved > 0
           /\ \E i \in 1..Len(jobs[j].result.tasks) :
                 jobs[j].result.tasks[i].status = "error"

\* C20: when the model call of a job fails, the job ends in error with the
\* failure's message, with no result and no task record persisted.
C20_FailedModelCallEndsInError ==
    \A n \in 1..Len(llmCalls) :
        llmCalls[n].outcome \in {"rejected", "fallback"} =>
            FailedWith(llmCalls[n].jobId, LlmError)

----------------------------------------------------------------------------
(* Claims about POST /submit and the order of the steps                    *)

\* a request body with no transcript text: not a string (absent included),
\* empty, or blanks only
NoUsableText(body) == ~body.isStr \/ \A i \in 1..Len(body.s) : body.s[i] = " "

\* C21: an empty, whitespace-only, absent or non-string transcript is
\* answered 400 with no jobId, in a step that creates no job, starts no
\* createJob and no model call; no such body ever reaches createJob.
C21_InvalidTranscriptRejected ==
    [][/\ \A c \in Clients :
            submit'[c].pc # "idle" => ~NoUsableText(submit'[c].body)
       /\ (/\ Len(responses') = Len(responses) + 1
           /\ NoUsableText(responses'[Len(responses')].body)) =>
              /\ responses'[Len(responses')].code = 400
              /\ responses'[Len(responses')].jobId = 0
              /\ UNCHANGED <<jobs, taskDocs, submit, proc, llmCalls>>]_vars

\* the empty, the blank and the missing transcript have each been answered
\* 400, and nothing was created
C21_Witness ==
    /\ \A body \in {Str(<<>>), Str(Blank), NotStr} :
          \E i \in 1..Len(responses) :
              responses[i].body = body /\ responses[i].code = 400
    /\ \A j \in JobIds : ~jobs[j].exists
    /\ llmCalls = <<>>

----------------------------------------------------------------------------
(* Claims about who writes a job and its tasks                             *)

\* the status, result and error of a job document
TerminalFields(job) == <<job.status, job.hasResult, job.result, job.hasError, job.error>>

TaskRecordStatuses(j) == [i \in 1..Len(taskDocs[j]) |-> taskDocs[j][i].status]
ResultStatuses(j) == [i \in 1..Len(jobs[j].result.tasks) |-> jobs[j].result.tasks[i].status]

\* C23: once stored, the status of a task never changes: not in the task
\* records (which only grow, by saveTasks) and not in the stored result.
C23_TaskStatusWriteOnce ==
    [][\A j \in JobIds :
          /\ \A i \in 1..Len(taskDocs[j]) :
                /\ i <= Len(taskDocs'[j])
                /\ taskDocs'[j][i].status = taskDocs[j][i].status
          /\ jobs[j].hasResult =>
                ResultStatuses(j)' = ResultStatuses(j)]_vars

TaskStatuses == {"pending", "ready", "blocked", "error"}

\* C24: every task stored for a job, in its result and in its task records,
\* has a status in {pending, ready, blocked, error}.
C24_StoredStatusInEnumeration ==
    \A j \in JobIds :
        /\ \A i \in 1..Len(taskDocs[j]) : taskDocs[j][i].status \in TaskStatuses
        /\ \A i \in 1..Len(jobs[j].result.tasks) :
              jobs[j].result.tasks[i].status \in TaskStatuses

----------------------------------------------------------------------------
(* Claims about the order of the steps of a job                            *)

\* the steps of processTranscript in the order of its code: the await of
\* generateTasks, Steps 2 to 6 (which do not suspend), saveTasks,
\* completeJob; the catch block with failJob can follow any of them
StepOrder ==
    { <<"none", "llm">>, <<"llm", "saveTasks">>, <<"saveTasks", "completeJob">>,
      <<"completeJob", "returned">>,
      <<"llm", "failJob">>, <<"saveTasks", "failJob">>, <<"completeJob", "failJob">>,
      <<"failJob", "returned">>, <<"failJob", "rejected">> }

\* the ids of the task records of a job, in insertion order
TaskRecordIds(j) == [i \in 1..Len(taskDocs[j]) |-> taskDocs[j][i].taskId]

\* what holds at each position of processTranscript
OrderedSoFar(j) ==
    /\ proc[j].pc = "llm" =>
          /\ llmCalls[CallOf(j)].outcome = "pending"
          /\ taskDocs[j] = <<>>
          /\ jobs[j].status = "processing"
    /\ proc[j].pc = "saveTasks" =>
          /\ Returned(CallOf(j))
          /\ Pipeline(llmCalls[CallOf(j)].output).result = proc[j].result
          /\ taskDocs[j] = <<>>
          /\ jobs[j].status = "processing"
    /\ proc[j].pc = "completeJob" =>
          /\ taskDocs[j] = TaskDocuments(proc[j].finalTasks)
          /\ jobs[j].status = "processing"
    /\ jobs[j].status = "done" =>
          /\ proc[j].pc = "returned"
          /\ Returned(CallOf(j))
          /\ TaskRecordIds(j) =
                [i \in 1..Len(jobs[j].result.tasks) |-> jobs[j].result.tasks[i].id]

\* C25: within a job the steps run in the order model call, Steps 2 to 6,
\* saveTasks, completeJob, each after the previous one has completed; a job
\* is never done before its task records are saved.
C25_StepsInOrder ==
    /\ [](\A j \in JobIds : OrderedSoFar(j))
    /\ [][\A j \in JobIds :
            proc'[j].pc # proc[j].pc => <<proc[j].pc, proc'[j].pc>> \in StepOrder]_vars

\* a done job with its two task records
C25_Witness ==
    \E j \in JobIds :
        /\ jobs[j].status = "done"
        /\ Len(taskDocs[j]) = 2
        /\ Len(jobs[j].result.tasks) = 2

\* C26: for a new submission the job exists in status processing when 202
\* with its jobId is sent and processTranscript starts after that, with the
\* model call still pending; every processTranscript run, and so every
\* completeJob and failJob, has an existing job and a 202 sent for it.
C26_JobExistsBeforeProcessing ==
    [][/\ \A j \in JobIds :
            proc'[j].pc # "none" =>
                /\ jobs'[j].exists
                /\ \E i \in 1..Len(responses') :
                      responses'[i].code = 202 /\ responses'[i].jobId = j
       /\ \A i \in 1..Len(responses') :
            responses'[i].code = 202 => jobs'[responses'[i].jobId].exists
       /\ (/\ Len(responses') = Len(responses) + 1
           /\ responses'[Len(responses')].code = 202) =>
              LET j == responses'[Len(responses')].jobId
              IN /\ ~jobs[j].exists
                 /\ jobs'[j].status = "processing"
                 /\ proc[j].pc = "none"
                 /\ proc'[j].pc = "llm"
                 /\ Len(llmCalls') = Len(llmCalls) + 1
                 /\ llmCalls'[Len(llmCalls')].jobId = j
                 /\ llmCalls'[Len(llmCalls')].outcome = "pending"]_vars

\* 202 has been sent while the model call of the job is still pending
C26_Witness ==
    \E i \in 1..Len(responses) :
        /\ responses[i].code = 202
        /\ jobs[responses[i].jobId].status = "processing"
        /\ llmCalls[CallOf(responses[i].jobId)].outcome = "pending"

----------------------------------------------------------------------------
(* Claims about forward and dropped dependency targets                     *)

\* the records of an input the claim calls well-formed, in input order
WellFormed(tasks) == SelectSeq(tasks, LAMBDA r : ~Malformed(r))

\* the positions <<k, e>> of the dependency entries of well-formed records
\* that are non-blank strings
NamedEntries(kept) ==
    {x \in UNION {{<<k, e>> : e \in 1..Len(kept[k].dependencies)} : k \in 1..Len(kept)} :
        /\ kept[x[1]].dependencies[x[2]].isStr
        /\ \E i \in 1..Len(kept[x[1]].dependencies[x[2]].s) :
              kept[x[1]].dependencies[x[2]].s[i] # " "}

\* the record at position m carries the id the entry x names
Names(kept, x, m) == Trim(kept[m].id.s) = kept[x[1]].dependencies[x[2]].s

\* C28: a dependency is kept exactly when it names a well-formed record
\* anywhere in the input, later ones included; one that names only dropped
\* records, or nothing, is removed and counted.
C28_FilterUsesAllSurvivingIds ==
    (vpc = "done" /\ ~vout.threw) =>
        LET kept    == WellFormed(vin)
            entries == NamedEntries(kept)
            dangling == {x \in entries : \A m \in 1..Len(kept) : ~Names(kept, x, m)}
        IN /\ Len(vout.validated) = Len(kept)
           /\ \A x \in entries :
                (\E m \in 1..Len(kept) : Names(kept, x, m)) <=>
                    kept[x[1]].dependencies[x[2]].s
                        \in SeqToSet(vout.validated[x[1]].dependencies)
           /\ \A k \in 1..Len(kept) :
                Len(vout.validated[k].dependencies) =
                    Cardinality({x \in entries \ dangling : x[1] = k})
           /\ vout.invalidDependenciesRemoved = Cardinality(dangling)

\* a is followed by b and depends on it, and b depends on an id that only a
\* dropped record carries: the first is kept, the second removed and counted
C28_Witness ==
    /\ vpc = "done"
    /\ ~vout.threw
    /\ Len(vin) = 3
    /\ \E i, k, d \in 1..3 :
          /\ i < k
          /\ Malformed(vin[d]) /\ vin[d].id = Str(Ghost)
          /\ vin[i].id = Str(A) /\ vin[i].dependencies = <<Str(B), Str(A)>>
          /\ vin[k].id = Str(B) /\ vin[k].dependencies = <<Str(A), Str(Ghost), Str(B)>>
    /\ Len(vout.validated) = 2
    /\ vout.validated[1].dependencies = <<B, A>>
    /\ vout.validated[2].dependencies = <<A, B>>
    /\ vout.invalidDependenciesRemoved = 1

----------------------------------------------------------------------------
(* Claims about self-dependencies and rings                                *)

\* the records a model output would hold for a sequence of sanitized tasks
RawOf(tasks) ==
    [i \in 1..Len(tasks) |->
        Record(Str(tasks[i].id), Str(tasks[i].description), Str(tasks[i].priority),
               [e \in 1..Len(tasks[i].dependencies) |-> Str(tasks[i].dependencies[e])])]

\* C29: a task that lists its own id among its dependencies passes the
\* sanitizer unchanged, is reported as the cycle [id, id], is in
\* errorTaskIds and gets status error, and no error is thrown: the result
\* goes on to be persisted.
C29_SelfDependencyIsOneNodeCycle ==
    gpc \in {"done", "resolved"} =>
        \A i \in 1..Len(gin) :
            gin[i].id \in SeqToSet(gin[i].dependencies) =>
                /\ validateTasks(RawOf(gin)) =
                      [threw |-> FALSE, message |-> NoMessage, validated |-> gin,
                       invalidDependenciesRemoved |-> 0]
                /\ \E n \in 1..Len(gout.cycles) : gout.cycles[n] = <<gin[i].id, gin[i].id>>
                /\ gin[i].id \in SeqToSet(gout.errorTaskIds)
                /\ gpc = "resolved" =>
                      /\ ~gres.threw
                      /\ gres.finalTasks[i].status = "error"
                      /\ gres.result.tasks[i].status = "error"
                      /\ ProcAfterPipeline(gres).pc = "saveTasks"

\* a depends on itself only, next to b which depends on a: a is in error,
\* b is blocked
C29_Witness ==
    /\ gpc = "resolved"
    /\ Len(gin) = 2
    /\ gin[1].dependencies = <<A>>
    /\ gin[2].dependencies = <<A>>
    /\ gout.cycles = <<<<A, A>>>>
    /\ gres.result.tasks[1].status = "error"
    /\ gres.result.tasks[2].status = "blocked"

\* the walk of k edges from id, in a graph where every task has one
\* dependency target
RECURSIVE RingWalk(_, _, _)
RingWalk(tasks, id, k) ==
    IF k = 0 THEN <<id>>
    ELSE LET task == tasks[CHOOSE i \in 1..Len(tasks) : tasks[i].id = id]
         IN <<id>> \o RingWalk(tasks, CHOOSE d \in SeqToSet(task.dependencies) : TRUE, k - 1)

\* the dependency graph is one directed ring through all n >= 2 tasks
IsRing(tasks) ==
    /\ Len(tasks) >= 2
    /\ \A i \in 1..Len(tasks) : Cardinality(SeqToSet(tasks[i].dependencies)) = 1
    /\ LET walk == RingWalk(tasks, tasks[1].id, Len(tasks))
       IN /\ walk[Len(tasks) + 1] = tasks[1].id
          /\ SeqToSet(SubSeq(walk, 1, Len(tasks))) = IdSet(tasks)

\* C30: on a ring of n >= 2 tasks detectCycles reports one cycle, the walk
\* of n edges from the first task of the input back to it (n + 1 elements);
\* all n tasks are in errorTaskIds and get status error.
C30_RingIsOneCycle ==
    (gpc \in {"done", "resolved"} /\ IsRing(gin)) =>
        /\ gout.hasCycle
        /\ gout.cycles = <<RingWalk(gin, gin[1].id, Len(gin))>>
        /\ Len(gout.cycles[1]) = Len(gin) + 1
        /\ Len(gout.errorTaskIds) = Len(gin)
        /\ SeqToSet(gout.errorTaskIds) = IdSet(gin)
        /\ gpc = "resolved" =>
              \A i \in 1..Len(gin) : gres.result.tasks[i].status = "error"

\* the ring a -> c -> b -> a gives the single cycle [a, c, b, a]
C30_Witness ==
    /\ gpc = "resolved"
    /\ Len(gin) = 3
    /\ gin[1].dependencies = <<C>>
    /\ gin[2].dependencies = <<A>>
    /\ gin[3].dependencies = <<B>>
    /\ gout.cycles = <<<<A, C, B, A>>>>
    /\ \A i \in 1..3 : gres.result.tasks[i].status = "error"
----------------------------------------------------------------------------
(* Claims about the statements of the cycle detector                       *)

\* C31: at every step of detectCycles, visiting and visited are disjoint; a
\* node enters visited only when dfs has been called on each of its
\* dependencies, each of them then being in visited or on the current path;
\* a node in visited stays in it and is not expanded again; and when
\* detectCycles returns, visiting is empty and visited holds every task id.
C31_VisitingAndVisited ==
    /\ [](/\ gwalk.visiting \cap gwalk.visited = {}
          /\ gwalk.pc = "returned" =>
                /\ gwalk.visiting = {}
                /\ gwalk.visited = {gin[i].id : i \in 1..Len(gin)})
    /\ [][/\ gwalk.visited \subseteq gwalk'.visited
          /\ \A n \in gwalk'.visited \ gwalk.visited :
                \A d \in SeqToSet(DeclaredDependencies(gin, n)) :
                    /\ <<n, d>> \in SeqToSet(gwalk.traversed)
                    /\ d \in gwalk'.visited \cup gwalk'.visiting
          /\ gwalk'.expanded # gwalk.expanded =>
                gwalk'.expanded[Len(gwalk'.expanded)] \notin gwalk.visited]_vars

\* a -> b -> c -> a with a -> c: c is in visited when a comes to it
C31_Witness ==
    /\ gwalk.pc = "returned"
    /\ Len(gin) = 3
    /\ gin[1].dependencies = <<B, C>>
    /\ gin[2].dependencies = <<C>>
    /\ gin[3].dependencies = <<A>>
    /\ gwalk.visited = {A, B, C}
    /\ gwalk.visiting = {}

\* C32: during one run of detectCycles no node is expanded twice and no edge
\* of the adjacency mapping is traversed twice, also when a task declares the
\* same dependency several times; every traversal is along an edge of the
\* mapping, and at the return every node has been expanded and every edge
\* traversed.
C32_EachNodeAndEdgeOnce ==
    /\ \A i, k \in 1..Len(gwalk.expanded) :
          i # k => gwalk.expanded[i] # gwalk.expanded[k]
    /\ \A i, k \in 1..Len(gwalk.traversed) :
          i # k => gwalk.traversed[i] # gwalk.traversed[k]
    /\ SeqToSet(gwalk.traversed) \subseteq Edges(gin)
    /\ gwalk.pc = "returned" =>
          /\ Len(gwalk.expanded) = Len(gin)
          /\ Len(gwalk.traversed) = Cardinality(Edges(gin))

\* a declares b three times and c declares a twice: three edges, three
\* traversals
C32_Witness ==
    /\ gwalk.pc = "returned"
    /\ Len(gin) = 3
    /\ gin[1].dependencies = <<B, B, B>>
    /\ gin[2].dependencies = <<C>>
    /\ gin[3].dependencies = <<A, A>>
    /\ gwalk.traversed = <<<<A, B>>, <<B, C>>, <<C, A>>>>
    /\ gwalk.expanded = <<A, B, C>>

----------------------------------------------------------------------------
(* Claims about the last rule of the resolver                              *)

\* C33: in the pipeline the last rule of determineTaskStatus is never taken:
\* every dependency of a task that Steps 2 to 6 produced is the id of one of
\* the tasks (allTaskIds), so a task with at least one dependency is never
\* given the status ready by determineTaskStatus; it is blocked, or in error
\* by cycle detection.
C33_LastRuleNeverTaken ==
    \A j \in JobIds :
        proc[j].pc \in {"saveTasks", "completeJob"} =>
            \A i \in 1..Len(proc[j].finalTasks) :
                LET task == proc[j].finalTasks[i]
                    allTaskIds == IdSet(proc[j].finalTasks)
                IN /\ SeqToSet(task.dependencies) \subseteq allTaskIds
                   /\ Len(task.dependencies) > 0 =>
                         /\ determineTaskStatus(task, allTaskIds) # "ready"
                         /\ task.status \in {"blocked", "error"}

\* a task that depends on another one and is blocked, and a job whose tasks
\* kept only the dependencies that name a task
C33_Witness ==
    \E j \in JobIds :
        /\ proc[j].pc = "saveTasks"
        /\ Len(proc[j].finalTasks) = 2
        /\ proc[j].finalTasks[2].dependencies = <<A>>
        /\ proc[j].finalTasks[2].status = "blocked"
        /\ llmCalls[CallOf(j)].outcome = "resolved"

----------------------------------------------------------------------------
(* Claims about jobs processed at the same time                            *)

\* how the processing of job j ends when nothing else runs: a function of
\* what its own generateTasks call did and of which of its own store writes
\* failed
EndsAsAlone(j) ==
    LET call == llmCalls[CallOf(j)]
        r    == Pipeline(call.output)
    IN /\ jobs[j].status = "done" =>
             /\ call.outcome \in {"resolved", "fallback"}
             /\ ~r.threw
             /\ jobs[j].hasResult /\ jobs[j].result = r.result
             /\ ~jobs[j].hasError
             /\ taskDocs[j] = TaskDocuments(r.finalTasks)
             /\ proc[j].pc = "returned"
       /\ jobs[j].status = "error" =>
             /\ ~jobs[j].hasResult
             /\ jobs[j].hasError
             /\ jobs[j].error = IF call.outcome = "rejected" THEN LlmError
                                ELSE IF r.threw THEN r.message ELSE StoreError
             /\ proc[j].pc = "returned"
       /\ proc[j].pc = "returned" => jobs[j].status \in Terminal

\* C34: jobs are independent.  Under every interleaving of the processing of
\* two jobs, a step of processTranscript for one job (a failing step
\* included) leaves the record, the task records and the processing of the
\* other job unchanged, and each job ends as its own model call and its own
\* store writes determine.
C34_JobsAreIndependent ==
    /\ [](\A j \in JobIds : jobs[j].exists => EndsAsAlone(j))
    /\ [][\A a, b \in JobIds :
             (a # b /\ proc'[a] # proc[a]) =>
                 /\ jobs'[b] = jobs[b]
                 /\ taskDocs'[b] = taskDocs[b]
                 /\ proc'[b] = proc[b]]_vars

\* job 1 failed at completeJob after its task records were saved, while job 2
\* was between saveTasks and completeJob; job 2 is done with its own result
C34_Witness ==
    /\ jobs[1].status = "error"
    /\ jobs[1].error = StoreError
    /\ taskDocs[1] # <<>>
    /\ jobs[2].status = "done"
    /\ llmCalls[CallOf(2)].outcome = "fallback"
    /\ jobs[2].result = Pipeline(fallbackTasks(<<"y">>)).result
    /\ Len(taskDocs[2]) = 1

----------------------------------------------------------------------------
(* Claims about what the cycle report says of the whole graph              *)

\* C35: for every sanitized task sequence hasCycle is true exactly when the
\* dependency graph has a directed cycle, self-loops included; the answer is
\* the same for every order of the tasks and for every order of each task's
\* dependencies (every order of the dependencies is an input of its own).
C35_HasCycleIffGraphCyclic ==
    gpc \in {"done", "resolved"} =>
        /\ gout.hasCycle <=> OnCycle(gin) # {}
        /\ \A order \in Permutations(1..Len(gin)) :
              detectCycles([i \in 1..Len(gin) |-> gin[order[i]]]).hasCycle
                  = gout.hasCycle

\* the only cycle is b -> c -> b, not reachable from a and entered from the
\* second root; the first root a has no dependency
C35_Witness ==
    /\ gpc = "done"
    /\ Len(gin) = 3
    /\ gin[1].dependencies = <<>>
    /\ gin[2].dependencies = <<C, A>>
    /\ gin[3].dependencies = <<B>>
    /\ gout.hasCycle
    /\ gout.cycles = <<<<B, C, B>>>>

\* C36: every cycle detectCycles reports is elementary (the first id equals
\* the last and no other id is repeated), and no sequence occurs twice in
\* cycles, from however many roots the cycle can be reached.
C36_CyclesElementaryAndDistinct ==
    gpc \in {"done", "resolved"} =>
        /\ \A n \in 1..Len(gout.cycles) :
              LET cycle == gout.cycles[n]
              IN /\ Len(cycle) >= 2
                 /\ cycle[1] = cycle[Len(cycle)]
                 /\ \A i, k \in 1..(Len(cycle) - 1) : i # k => cycle[i] # cycle[k]
        /\ \A m, n \in 1..Len(gout.cycles) :
              m # n => gout.cycles[m] # gout.cycles[n]

\* the cycle b -> c -> b is reachable from each of the three roots and
\* b declares c twice: it is reported once, and so is c -> c
C36_Witness ==
    /\ gpc = "done"
    /\ Len(gin) = 3
    /\ gin[1].dependencies = <<B, C>>
    /\ gin[2].dependencies = <<C, C>>
    /\ gin[3].dependencies = <<C, B>>
    /\ gout.cycles = <<<<C, C>>, <<B, C, B>>>>

----------------------------------------------------------------------------
(* Claims about the task records of a failed job                           *)

\* C37: task records are in the store for a job only if the job ends in
\* done: a job in status error has no task record, also when the failure is
\* a failed store write after the tasks were computed.
C37_NoTaskRecordsForFailedJob ==
    \A j \in JobIds : jobs[j].status = "error" => taskDocs[j] = <<>>

----------------------------------------------------------------------------
(* Claims about setTaskCompletion                                          *)

\* C38: when two setTaskCompletion calls for two different tasks of the same
\* done job have both returned a result (each has pushed its activity and
\* saved the job), the stored result of the job shows both changes: each of
\* the two tasks has the completed flag and the status its call set.
C38_BothUpdatesStored ==
    \A j \in JobIds :
        (/\ Len(jobs[j].activities) = 2
         /\ jobs[j].activities[1].taskId # jobs[j].activities[2].taskId) =>
            \A n \in 1..2 : \A i \in 1..Len(jobs[j].result.tasks) :
                jobs[j].result.tasks[i].id = jobs[j].activities[n].taskId =>
                    /\ jobs[j].result.tasks[i].status =
                          CompletionStatus(jobs[j].activities[n].completed)
                    /\ jobs[j].result.tasks[i].completed =
                          (IF jobs[j].activities[n].completed THEN "true" ELSE "false")

\* C39: setTaskCompletion returns null, and changes no job record, no
\* activity and no task record, when the job does not exist, has no result
\* (it is in processing or in error) or has no task with the given id; a call
\* goes on to its store writes only for a done job with a result that holds
\* the task.
C39_NullReturnChangesNothing ==
    [][\A p \in Callers :
          /\ (stc[p].pc = "idle" /\ stc'[p].pc = "idle" /\ stc'[p] # stc[p]) =>
                /\ stc'[p].returned = "null"
                /\ UNCHANGED <<jobs, taskDocs>>
          /\ (stc[p].pc = "idle" /\ stc'[p].pc # "idle") =>
                /\ jobs[stc'[p].jobId].exists
                /\ jobs[stc'[p].jobId].hasResult
                /\ jobs[stc'[p].jobId].status = "done"
                /\ \E i \in 1..Len(jobs[stc'[p].jobId].result.tasks) :
                      jobs[stc'[p].jobId].result.tasks[i].id = stc'[p].taskId
                /\ UNCHANGED <<jobs, taskDocs>>]_vars

\* a call has returned null while the only job is in error with task records
\* left in the store, and no call has got past the null returns
C39_Witness ==
    /\ stc["p1"].pc = "idle"
    /\ stc["p1"].returned = "null"
    /\ stc["p1"].calls = 0
    /\ jobs[1].status = "error"
    /\ taskDocs[1] # <<>>
    /\ jobs[1].activities = <<>>
    /\ \A j \in JobIds : j # 1 => ~jobs[j].exists

----------------------------------------------------------------------------
(* Claims about the path of the cycle detector                             *)

\* C40: at every call dfs(nodeId, path) the elements of path are pairwise
\* distinct and are exactly the members of visiting; so when visiting holds
\* nodeId, path.indexOf(nodeId) finds it (cycleStart is not -1), and every
\* call that meets a node of visiting pushes exactly one cycle.
C40_PathIsVisiting ==
    /\ [](\A n \in 1..Len(gwalk.stack) :
             gwalk.stack[n].pc = "entry" =>
                 LET path   == gwalk.stack[n].path
                     nodeId == gwalk.stack[n].nodeId
                 IN /\ \A i, k \in 1..Len(path) : i # k => path[i] # path[k]
                    /\ SeqToSet(path) = gwalk.visiting
                    /\ nodeId \in gwalk.visiting => IndexOf(path, nodeId) # 0)
    /\ [][(/\ gwalk.stack # <<>>
           /\ DfsTop.pc = "entry"
           /\ DfsTop.nodeId \in gwalk.visiting) =>
              /\ Len(gwalk'.cycles) = Len(gwalk.cycles) + 1
              /\ gwalk'.cycles[Len(gwalk'.cycles)][1] = DfsTop.nodeId]_vars

\* dfs(a, [a, b, c]) has just pushed the cycle a, b, c, a: the three nodes
\* are still in visiting
C40_Witness ==
    /\ gwalk.pc = "run"
    /\ gwalk.cycles = <<<<A, B, C, A>>>>
    /\ gwalk.visiting = {A, B, C}
    /\ Len(gwalk.stack) = 3
    /\ DfsTop.pc = "loop"
    /\ DfsTop.path = <<A, B, C>>

====
